---- MODULE Spec2Model ----
(***************************************************************************)
(* SIC/XE two-pass assembler: Pass 1 (sicxePass1.ts), Pass 2               *)
(* (sicxePass2.ts), the object-program generator (objectProgram.ts), the   *)
(* memory loader (memoryLoader.ts) and the helpers of lexer.ts / optab.ts  *)
(* they call.                                                              *)
(*                                                                         *)
(* Text is modelled by TLA+ strings, taken apart with Len / SubSeq / \o.   *)
(* A nullable number (number | null) is <<>> for null and <<v>> for v.     *)
(* A string that may be undefined or null (label, operand, objectCode) is  *)
(* "" when absent: the code tests these by truthiness only, and '' and     *)
(* undefined are both falsy.                                               *)
(***************************************************************************)
EXTENDS Integers, Sequences, FiniteSets, TLC

VARIABLES lines, pass1Result, pass2Result, objectProgram, memory,
          dispIn, dispOut, store, tasks

vars == <<lines, pass1Result, pass2Result, objectProgram, memory, dispIn, dispOut, store, tasks>>

-----------------------------------------------------------------------------
(* nullable numbers *)

None == <<>>

Some(v) == <<v>>

IsNull(o) == o = <<>>

Val(o) == o[1]

-----------------------------------------------------------------------------
(* characters and JavaScript string primitives *)

Ch(s, k) == SubSeq(s, k, k)

LowerToUpper ==
  [c \in {"a","b","c","d","e","f","g","h","i","j","k","l","m","n","o","p","q",
          "r","s","t","u","v","w","x","y","z"} |->
     CASE c = "a" -> "A" [] c = "b" -> "B" [] c = "c" -> "C" [] c = "d" -> "D"
       [] c = "e" -> "E" [] c = "f" -> "F" [] c = "g" -> "G" [] c = "h" -> "H"
       [] c = "i" -> "I" [] c = "j" -> "J" [] c = "k" -> "K" [] c = "l" -> "L"
       [] c = "m" -> "M" [] c = "n" -> "N" [] c = "o" -> "O" [] c = "p" -> "P"
       [] c = "q" -> "Q" [] c = "r" -> "R" [] c = "s" -> "S" [] c = "t" -> "T"
       [] c = "u" -> "U" [] c = "v" -> "V" [] c = "w" -> "W" [] c = "x" -> "X"
       [] c = "y" -> "Y" [] c = "z" -> "Z"]

RECURSIVE ToUpperCase(_)
ToUpperCase(s) ==
  IF Len(s) = 0 THEN ""
  ELSE (IF Head(s) \in DOMAIN LowerToUpper THEN LowerToUpper[Head(s)] ELSE Head(s))
         \o ToUpperCase(Tail(s))

RECURSIVE TrimLeft(_)
TrimLeft(s) == IF Len(s) > 0 /\ Head(s) = " " THEN TrimLeft(Tail(s)) ELSE s

RECURSIVE TrimRight(_)
TrimRight(s) ==
  IF Len(s) > 0 /\ Ch(s, Len(s)) = " " THEN TrimRight(SubSeq(s, 1, Len(s) - 1)) ELSE s

Trim(s) == TrimRight(TrimLeft(s))

RECURSIVE Includes(_, _)
Includes(s, c) == Len(s) > 0 /\ (Head(s) = c \/ Includes(Tail(s), c))

StartsWith(s, p) == Len(s) >= Len(p) /\ SubSeq(s, 1, Len(p)) = p

EndsWith(s, p) == Len(s) >= Len(p) /\ SubSeq(s, Len(s) - Len(p) + 1, Len(s)) = p

RECURSIVE Repeat(_, _)
Repeat(c, n) == IF n <= 0 THEN "" ELSE c \o Repeat(c, n - 1)

PadStart(s, n, c) == Repeat(c, n - Len(s)) \o s

PadEnd(s, n, c) == s \o Repeat(c, n - Len(s))

DecDigits == {"0","1","2","3","4","5","6","7","8","9"}

HexDigits == DecDigits \cup {"A","B","C","D","E","F","a","b","c","d","e","f"}

DigitVal(c) ==
  CASE c = "0" -> 0 [] c = "1" -> 1 [] c = "2" -> 2 [] c = "3" -> 3 [] c = "4" -> 4
    [] c = "5" -> 5 [] c = "6" -> 6 [] c = "7" -> 7 [] c = "8" -> 8 [] c = "9" -> 9
    [] c \in {"A", "a"} -> 10 [] c \in {"B", "b"} -> 11 [] c \in {"C", "c"} -> 12
    [] c \in {"D", "d"} -> 13 [] c \in {"E", "e"} -> 14 [] c \in {"F", "f"} -> 15

DigitChar(d) == Ch("0123456789ABCDEF", d + 1)

RECURSIVE AllIn(_, _)
AllIn(s, set) == Len(s) = 0 \/ (Head(s) \in set /\ AllIn(Tail(s), set))

(* parseInt(s, radix) on a string of digits of that radix *)
RECURSIVE ParseDigits(_, _, _)
ParseDigits(s, radix, acc) ==
  IF Len(s) = 0 THEN acc ELSE ParseDigits(Tail(s), radix, acc * radix + DigitVal(Head(s)))

(* n.toString(16).toUpperCase() for an integer n *)
RECURSIVE ToHexNat(_)
ToHexNat(n) == IF n < 16 THEN DigitChar(n) ELSE ToHexNat(n \div 16) \o DigitChar(n % 16)

ToHex(n) == IF n < 0 THEN "-" \o ToHexNat(0 - n) ELSE ToHexNat(n)

-----------------------------------------------------------------------------
(* lexer.ts helpers *)

isValidHexNumber(value) == Len(value) > 0 /\ AllIn(value, HexDigits)

isValidDecimalNumber(value) ==
  LET body == IF Len(value) > 0 /\ Head(value) = "-" THEN Tail(value) ELSE value
  IN  Len(body) > 0 /\ AllIn(body, DecDigits)

(* parseInt(s, 10) for a string accepted by isValidDecimalNumber *)
ParseInt10(s) ==
  IF Head(s) = "-" THEN 0 - ParseDigits(Tail(s), 10, 0) ELSE ParseDigits(s, 10, 0)

parseNumericOperand(operand) ==
  IF Len(operand) = 0 THEN None
  ELSE IF StartsWith(ToUpperCase(operand), "0X") /\ isValidHexNumber(SubSeq(operand, 3, Len(operand)))
       THEN Some(ParseDigits(SubSeq(operand, 3, Len(operand)), 16, 0))
  ELSE IF isValidHexNumber(operand) THEN Some(ParseDigits(operand, 16, 0))
  ELSE IF isValidDecimalNumber(operand) THEN Some(ParseInt10(operand))
  ELSE None

(* null is [type |-> "none"]; C'..' needs one or more non-quote characters,   *)
(* X'..' one or more hex digits                                               *)
extractByteConstant(operand) ==
  LET body == SubSeq(operand, 3, Len(operand) - 1)
      quoted == Len(operand) >= 4 /\ Ch(operand, 2) = "'" /\ Ch(operand, Len(operand)) = "'"
  IN  IF Len(operand) < 3 THEN [type |-> "none", value |-> ""]
      ELSE IF quoted /\ Head(operand) \in {"C", "c"} /\ ~Includes(body, "'")
           THEN [type |-> "char", value |-> body]
      ELSE IF quoted /\ Head(operand) \in {"X", "x"} /\ AllIn(body, HexDigits)
           THEN [type |-> "hex", value |-> body]
      ELSE [type |-> "none", value |-> ""]

(* the hex branch divides the digit count by two; isValidByteConstant accepts *)
(* even digit counts only                                                    *)
calculateByteConstantSize(operand) ==
  LET extracted == extractByteConstant(operand)
  IN  IF extracted.type = "none" THEN 0
      ELSE IF extracted.type = "char" THEN Len(extracted.value)
      ELSE Len(extracted.value) \div 2

-----------------------------------------------------------------------------
(* optab.ts *)

OPTAB ==
  ("ADD" :> [opcode |-> 24, format |-> 3, operands |-> 1])
  @@ ("ADDF" :> [opcode |-> 88, format |-> 3, operands |-> 1])
  @@ ("SUB" :> [opcode |-> 28, format |-> 3, operands |-> 1])
  @@ ("SUBF" :> [opcode |-> 92, format |-> 3, operands |-> 1])
  @@ ("MUL" :> [opcode |-> 32, format |-> 3, operands |-> 1])
  @@ ("MULF" :> [opcode |-> 96, format |-> 3, operands |-> 1])
  @@ ("DIV" :> [opcode |-> 36, format |-> 3, operands |-> 1])
  @@ ("DIVF" :> [opcode |-> 100, format |-> 3, operands |-> 1])
  @@ ("AND" :> [opcode |-> 64, format |-> 3, operands |-> 1])
  @@ ("OR" :> [opcode |-> 68, format |-> 3, operands |-> 1])
  @@ ("COMP" :> [opcode |-> 40, format |-> 3, operands |-> 1])
  @@ ("COMPF" :> [opcode |-> 136, format |-> 3, operands |-> 1])
  @@ ("J" :> [opcode |-> 60, format |-> 3, operands |-> 1])
  @@ ("JEQ" :> [opcode |-> 48, format |-> 3, operands |-> 1])
  @@ ("JGT" :> [opcode |-> 52, format |-> 3, operands |-> 1])
  @@ ("JLT" :> [opcode |-> 56, format |-> 3, operands |-> 1])
  @@ ("JSUB" :> [opcode |-> 72, format |-> 3, operands |-> 1])
  @@ ("RSUB" :> [opcode |-> 76, format |-> 3, operands |-> 0])
  @@ ("LDA" :> [opcode |-> 0, format |-> 3, operands |-> 1])
  @@ ("LDB" :> [opcode |-> 104, format |-> 3, operands |-> 1])
  @@ ("LDCH" :> [opcode |-> 80, format |-> 3, operands |-> 1])
  @@ ("LDF" :> [opcode |-> 112, format |-> 3, operands |-> 1])
  @@ ("LDL" :> [opcode |-> 8, format |-> 3, operands |-> 1])
  @@ ("LDS" :> [opcode |-> 108, format |-> 3, operands |-> 1])
  @@ ("LDT" :> [opcode |-> 116, format |-> 3, operands |-> 1])
  @@ ("LDX" :> [opcode |-> 4, format |-> 3, operands |-> 1])
  @@ ("STA" :> [opcode |-> 12, format |-> 3, operands |-> 1])
  @@ ("STB" :> [opcode |-> 120, format |-> 3, operands |-> 1])
  @@ ("STCH" :> [opcode |-> 84, format |-> 3, operands |-> 1])
  @@ ("STF" :> [opcode |-> 128, format |-> 3, operands |-> 1])
  @@ ("STI" :> [opcode |-> 212, format |-> 3, operands |-> 1])
  @@ ("STL" :> [opcode |-> 20, format |-> 3, operands |-> 1])
  @@ ("STS" :> [opcode |-> 124, format |-> 3, operands |-> 1])
  @@ ("STSW" :> [opcode |-> 232, format |-> 3, operands |-> 1])
  @@ ("STT" :> [opcode |-> 132, format |-> 3, operands |-> 1])
  @@ ("STX" :> [opcode |-> 16, format |-> 3, operands |-> 1])
  @@ ("TIX" :> [opcode |-> 44, format |-> 3, operands |-> 1])
  @@ ("RD" :> [opcode |-> 216, format |-> 3, operands |-> 1])
  @@ ("TD" :> [opcode |-> 224, format |-> 3, operands |-> 1])
  @@ ("WD" :> [opcode |-> 220, format |-> 3, operands |-> 1])
  @@ ("LPS" :> [opcode |-> 208, format |-> 3, operands |-> 1])
  @@ ("SSK" :> [opcode |-> 236, format |-> 3, operands |-> 1])
  @@ ("ADDR" :> [opcode |-> 144, format |-> 2, operands |-> 2])
  @@ ("SUBR" :> [opcode |-> 148, format |-> 2, operands |-> 2])
  @@ ("MULR" :> [opcode |-> 152, format |-> 2, operands |-> 2])
  @@ ("DIVR" :> [opcode |-> 156, format |-> 2, operands |-> 2])
  @@ ("COMPR" :> [opcode |-> 160, format |-> 2, operands |-> 2])
  @@ ("SHIFTL" :> [opcode |-> 164, format |-> 2, operands |-> 2])
  @@ ("SHIFTR" :> [opcode |-> 168, format |-> 2, operands |-> 2])
  @@ ("RMO" :> [opcode |-> 172, format |-> 2, operands |-> 2])
  @@ ("CLEAR" :> [opcode |-> 180, format |-> 2, operands |-> 1])
  @@ ("TIXR" :> [opcode |-> 184, format |-> 2, operands |-> 1])
  @@ ("SVC" :> [opcode |-> 176, format |-> 2, operands |-> 1])
  @@ ("FIX" :> [opcode |-> 196, format |-> 1, operands |-> 0])
  @@ ("FLOAT" :> [opcode |-> 192, format |-> 1, operands |-> 0])
  @@ ("NORM" :> [opcode |-> 200, format |-> 1, operands |-> 0])
  @@ ("HIO" :> [opcode |-> 244, format |-> 1, operands |-> 0])
  @@ ("SIO" :> [opcode |-> 240, format |-> 1, operands |-> 0])
  @@ ("TIO" :> [opcode |-> 248, format |-> 1, operands |-> 0])

REGISTERS ==
  ("A" :> 0) @@ ("X" :> 1) @@ ("L" :> 2) @@ ("B" :> 3) @@ ("S" :> 4) @@ ("T" :> 5)
  @@ ("F" :> 6) @@ ("PC" :> 8) @@ ("SW" :> 9)

DIRECTIVES ==
  {"START", "END", "BYTE", "WORD", "RESB", "RESW", "BASE", "NOBASE", "EQU", "ORG",
   "LTORG", "USE", "CSECT", "EXTDEF", "EXTREF"}

StripPlus(mnemonic) ==
  IF StartsWith(mnemonic, "+") THEN SubSeq(mnemonic, 2, Len(mnemonic)) ELSE mnemonic

isValidOpcode(mnemonic) == StripPlus(ToUpperCase(mnemonic)) \in DOMAIN OPTAB

isDirective(mnemonic) == ToUpperCase(mnemonic) \in DIRECTIVES

(* null is <<>> *)
getOpcodeEntry(mnemonic) ==
  LET normalized == StripPlus(ToUpperCase(mnemonic))
  IN  IF normalized \in DOMAIN OPTAB THEN <<OPTAB[normalized]>> ELSE <<>>

getRegisterCode(register) ==
  LET normalized == ToUpperCase(register)
  IN  IF normalized \in DOMAIN REGISTERS THEN Some(REGISTERS[normalized]) ELSE None

ExtendedFormat(isExtended, entry) ==
  IF isExtended /\ entry.format = 3 THEN 4 ELSE entry.format

getInstructionFormat(mnemonic) ==
  LET isExtended == StartsWith(mnemonic, "+")
      cleanMnemonic == ToUpperCase(StripPlus(mnemonic))
  IN  IF isDirective(cleanMnemonic) THEN 0
      ELSE IF cleanMnemonic \notin DOMAIN OPTAB THEN 0
      ELSE ExtendedFormat(isExtended, OPTAB[cleanMnemonic])


-----------------------------------------------------------------------------
(* parser.ts *)

(* operand.split(',') followed by trim and toUpperCase of every part *)
RECURSIVE SplitComma(_, _, _)
SplitComma(s, current, parts) ==
  IF Len(s) = 0 THEN Append(parts, ToUpperCase(Trim(current)))
  ELSE IF Head(s) = "," THEN SplitComma(Tail(s), "", Append(parts, ToUpperCase(Trim(current))))
  ELSE SplitComma(Tail(s), current \o Head(s), parts)

(* [errors, warnings]: the messages of one line *)
parseLine(line) ==
  LET Letters == DOMAIN LowerToUpper \cup {LowerToUpper[c] : c \in DOMAIN LowerToUpper}
      isValidLabel(label) ==
        /\ Len(label) > 0 /\ Len(label) <= 16
        /\ Head(label) \in Letters
        /\ AllIn(Tail(label), Letters \cup DecDigits \cup {"_"})
      ByteConstant(extracted) ==
        \/ extracted.type = "char"
        \/ extracted.type = "hex" /\ Len(extracted.value) > 0 /\ Len(extracted.value) % 2 = 0
      isValidByteConstant(operand) == ByteConstant(extractByteConstant(operand))
      canBeExtended(mnemonic) == OPTAB[mnemonic].format = 3
      isFormat2Instruction(mnemonic) == OPTAB[mnemonic].format = 2
      operand == line.operand
      If(condition, message) == IF condition THEN <<message>> ELSE <<>>
      Only(errors) == [errors |-> errors, warnings |-> <<>>]
      Warn(condition, message) == [errors |-> <<>>, warnings |-> If(condition, message)]
      Reserved(name) ==
        IF Len(operand) = 0 THEN Only(<<name \o " requires a positive integer operand">>)
        ELSE Only(If(~isValidDecimalNumber(operand) \/ ParseInt10(operand) <= 0,
                     name \o " requires a positive integer"))
      validateDirective(directive) ==
        CASE directive = "START" ->
               IF Len(operand) = 0 THEN Warn(TRUE, "START without address, defaulting to 0")
               ELSE Only(If(~isValidHexNumber(operand),
                            "START requires a valid hexadecimal address"))
          [] directive = "BYTE" ->
               IF Len(operand) = 0 THEN Only(<<"BYTE requires an operand">>)
               ELSE Only(If(~isValidByteConstant(operand), "Invalid BYTE constant"))
          [] directive = "WORD" ->
               IF Len(operand) = 0 THEN Only(<<"WORD requires an operand">>)
               ELSE Only(If(/\ ~isValidDecimalNumber(operand) /\ ~isValidHexNumber(operand)
                            /\ ~isValidLabel(operand),
                            "Invalid WORD value"))
          [] directive \in {"RESB", "RESW"} -> Reserved(directive)
          [] directive = "BASE" ->
               Only(If(Len(operand) = 0, "BASE requires an operand (symbol or address)"))
          [] directive = "NOBASE" ->
               Warn(Len(operand) > 0, "NOBASE does not take an operand, ignoring")
          [] directive = "EQU" ->
               Only(If(Len(operand) = 0, "EQU requires an operand")
                      \o If(Len(line.label) = 0, "EQU requires a label"))
          [] directive = "ORG" ->
               Only(If(Len(operand) = 0, "ORG requires an address operand"))
          [] directive = "LTORG" ->
               Warn(Len(operand) > 0, "LTORG does not take an operand, ignoring")
          [] OTHER -> Only(<<>>)
      validateFormat2Operands(opcode, parts, expectedCount) ==
        IF expectedCount = 1
        THEN IF Len(parts) # 1 THEN <<opcode \o " expects 1 register operand">>
             ELSE IF opcode = "SVC"
                  THEN If(~isValidDecimalNumber(parts[1]), "SVC expects a decimal number operand")
                  ELSE If(IsNull(getRegisterCode(parts[1])), "Invalid register")
        ELSE IF expectedCount = 2
        THEN IF Len(parts) # 2 THEN <<opcode \o " expects 2 register operands (r1,r2)">>
             ELSE IF opcode \in {"SHIFTL", "SHIFTR"}
                  THEN If(IsNull(getRegisterCode(parts[1])), "Invalid register")
                         \o If(~isValidDecimalNumber(parts[2]),
                               opcode \o " expects a shift count as second operand")
                  ELSE If(IsNull(getRegisterCode(parts[1])), "Invalid first register")
                         \o If(IsNull(getRegisterCode(parts[2])), "Invalid second register")
        ELSE <<>>
      Prefixes ==
        If(line.addressingPrefix = "#" /\ line.indexed,
           "Cannot use immediate addressing (#) with indexed addressing (,X)")
      validateInstruction(opcode, entry) ==
        IF entry.operands = 0
        THEN [errors |-> Prefixes,
              warnings |-> If(Len(operand) > 0, "Instruction does not take an operand, ignoring")]
        ELSE IF Len(operand) = 0 THEN Only(<<"Instruction requires an operand">>)
        ELSE Only((IF isFormat2Instruction(opcode)
                   THEN validateFormat2Operands(opcode, SplitComma(operand, "", <<>>),
                                                entry.operands)
                   ELSE <<>>) \o Prefixes)
      Validated(opcode, labelErrors, extendedErrors, rest) ==
        [errors |-> labelErrors \o extendedErrors \o rest.errors, warnings |-> rest.warnings]
      Known(opcode, labelErrors) ==
        IF ~isValidOpcode(opcode) /\ ~isDirective(opcode)
        THEN Only(labelErrors \o <<"Invalid opcode">>)
        ELSE Validated(opcode, labelErrors,
                       If(line.isExtended /\ ~(isValidOpcode(opcode) /\ canBeExtended(opcode)),
                          "Instruction cannot use extended format (+)"),
                       IF isDirective(opcode) THEN validateDirective(opcode)
                       ELSE validateInstruction(opcode, OPTAB[opcode]))
      Labelled(labelErrors) ==
        IF Len(line.opcode) = 0 THEN Only(labelErrors \o <<"Missing opcode">>)
        ELSE Known(ToUpperCase(line.opcode), labelErrors)
  IN  IF line.isEmpty \/ line.isComment THEN Only(<<>>)
      ELSE Labelled(If(Len(line.label) > 0 /\ ~isValidLabel(line.label), "Invalid label format"))

(* [errors, success]: the errors and then the warnings of each line, in line order *)
parseAll(tokenizedLines) ==
  LET Diagnostics(lineNumber, messages, type) ==
        [k \in 1..Len(messages) |->
           [lineNumber |-> lineNumber, message |-> messages[k], type |-> type,
            phase |-> "parser"]]
      OfLine(line, parsed) ==
        Diagnostics(line.lineNumber, parsed.errors, "error")
          \o Diagnostics(line.lineNumber, parsed.warnings, "warning")
      Collect[k \in 0..Len(tokenizedLines)] ==
        IF k = 0 THEN <<>>
        ELSE Collect[k - 1] \o OfLine(tokenizedLines[k], parseLine(tokenizedLines[k]))
      Parsed(errors) ==
        [errors |-> errors,
         success |-> ~\E k \in 1..Len(errors) : errors[k].type = "error"]
  IN  Parsed(Collect[Len(tokenizedLines)])

-----------------------------------------------------------------------------
(* sicxePass1.ts *)

P1Error(line, message) ==
  [lineNumber |-> line.lineNumber, message |-> message, type |-> "error", phase |-> "pass1"]

HasError(errors) == \E k \in 1..Len(errors) : errors[k].type = "error"

(* symbolTable[key] = value *)
SymPut(symbolTable, key, value) == (key :> value) @@ symbolTable

(* the split of an expression at '+' and '-': trimmed non-empty terms, and the *)
(* operators in order                                                          *)
RECURSIVE SplitTerms(_, _, _, _)
SplitTerms(expr, current, tokens, operators) ==
  IF Len(expr) = 0
  THEN [tokens |-> IF Len(Trim(current)) > 0 THEN Append(tokens, Trim(current)) ELSE tokens,
        operators |-> operators]
  ELSE IF Head(expr) \in {"+", "-"}
       THEN SplitTerms(Tail(expr), "",
                       IF Len(Trim(current)) > 0 THEN Append(tokens, Trim(current)) ELSE tokens,
                       Append(operators, Head(expr)))
       ELSE SplitTerms(Tail(expr), current \o Head(expr), tokens, operators)

(* result = values[0]; then operators[i] applied to values[i + 1] while both exist *)
RECURSIVE ApplyOperators(_, _, _, _)
ApplyOperators(result, values, operators, k) ==
  IF k <= Len(operators) /\ k + 1 <= Len(values)
  THEN ApplyOperators(IF operators[k] = "+" THEN result + values[k + 1]
                                            ELSE result - values[k + 1],
                      values, operators, k + 1)
  ELSE result

(* one term of a Pass 1 expression: '*', then the symbol table, then a number *)
Pass1Term(token, symbolTable, currentLocctr) ==
  LET upperToken == ToUpperCase(token)
  IN  IF upperToken = "*" THEN Some(currentLocctr)
      ELSE IF upperToken \in DOMAIN symbolTable THEN Some(symbolTable[upperToken])
      ELSE parseNumericOperand(token)

evaluateExpression(expression, symbolTable, currentLocctr) ==
  LET Combine(tokens, operators, terms) ==
        IF Len(tokens) = 1 /\ Len(operators) = 0 THEN None
        ELSE IF \E k \in 1..Len(tokens) : IsNull(terms[k]) THEN None
        ELSE IF Len(tokens) = 0 THEN None
        ELSE Some(ApplyOperators(Val(terms[1]), [k \in 1..Len(tokens) |-> Val(terms[k])],
                                 operators, 1))
      Terms(split) ==
        Combine(split.tokens, split.operators,
                [k \in 1..Len(split.tokens) |->
                   Pass1Term(split.tokens[k], symbolTable, currentLocctr)])
      Eval(expr, numValue, upperExpr) ==
        IF Len(expr) = 0 THEN None
        ELSE IF expr = "*" THEN Some(currentLocctr)
        ELSE IF ~IsNull(numValue) THEN numValue
        ELSE IF upperExpr \in DOMAIN symbolTable THEN Some(symbolTable[upperExpr])
        ELSE Terms(SplitTerms(expr, "", <<>>, <<>>))
      Trimmed(expr) == Eval(expr, parseNumericOperand(expr), ToUpperCase(expr))
  IN  Trimmed(Trim(expression))

(* [size, errors]: the size and the diagnostics pushed while computing it *)
calculateDirectiveSize(directive, operand, lineNumber) ==
  LET err(message) == <<[lineNumber |-> lineNumber, message |-> message,
                         type |-> "error", phase |-> "pass1"]>>
      Constant(size) == IF size = 0
                        THEN [size |-> 0, errors |-> err("Invalid BYTE constant")]
                        ELSE [size |-> size, errors |-> <<>>]
      Reserve(count, unit, name) ==
        IF count <= 0 THEN [size |-> 0, errors |-> err(name \o " count must be positive")]
        ELSE [size |-> count * unit, errors |-> <<>>]
      Reserved(unit, name) ==
        IF Len(operand) = 0
        THEN [size |-> 0, errors |-> err(name \o " requires a positive integer operand")]
        ELSE IF ~isValidDecimalNumber(operand)
             THEN [size |-> 0, errors |-> err(name \o " requires a positive integer")]
             ELSE Reserve(ParseInt10(operand), unit, name)
  IN  CASE directive \in {"START", "END", "BASE", "NOBASE", "LTORG", "EQU", "ORG",
                          "USE", "CSECT", "EXTDEF", "EXTREF"} ->
             [size |-> 0, errors |-> <<>>]
        [] directive = "BYTE" ->
             IF Len(operand) = 0
             THEN [size |-> 0, errors |-> err("BYTE directive requires an operand")]
             ELSE Constant(calculateByteConstantSize(operand))
        [] directive = "WORD" -> [size |-> 3, errors |-> <<>>]
        [] directive \in {"RESB", "RESW"} ->
             Reserved(IF directive = "RESB" THEN 1 ELSE 3, directive)
        [] OTHER ->
             [size |-> 0,
              errors |-> <<[lineNumber |-> lineNumber,
                            message |-> "Unhandled directive in size calculation",
                            type |-> "warning", phase |-> "pass1"]>>]

calculateInstructionSize(line) ==
  LET isExtended == line.isExtended \/ StartsWith(line.opcode, "+")
      Sized(cleanOpcode) ==
        IF isDirective(cleanOpcode)
        THEN calculateDirectiveSize(cleanOpcode, line.operand, line.lineNumber)
        ELSE IF isValidOpcode(cleanOpcode)
             THEN [size |-> getInstructionFormat(IF isExtended THEN "+" \o cleanOpcode
                                                               ELSE cleanOpcode),
                   errors |-> <<>>]
             ELSE [size |-> 0,
                   errors |-> <<[lineNumber |-> line.lineNumber, message |-> "Unknown opcode",
                                 type |-> "error", phase |-> "pass1"]>>]
  IN  Sized(StripPlus(ToUpperCase(line.opcode)))

(* an intermediateFile entry; symbolTableSnapshot, a copy kept for display only, *)
(* is not carried                                                                *)
Intermediate(line, locctr, size) ==
  [line |-> [line EXCEPT !.location = locctr], locctr |-> locctr, size |-> size]

(* the state of the Pass 1 loop before the first line *)
Pass1Init ==
  [symbolTable |-> <<>>, intermediateFile |-> <<>>, errors |-> <<>>, deferredEQUs |-> <<>>,
   locctr |-> 0, startAddress |-> 0, programName |-> "PROG",
   foundStart |-> FALSE, foundEnd |-> FALSE]


(* an empty or comment line *)
Pass1Blank(st, line) ==
  [st EXCEPT !.intermediateFile = Append(@, Intermediate(line, None, 0))]

StartOperandValue(line) ==
  LET OrZero(parsed) == IF IsNull(parsed) THEN 0 ELSE Val(parsed)
  IN  OrZero(parseNumericOperand(IF Len(line.operand) > 0 THEN line.operand ELSE "0"))

Pass1Start(st, line) ==
  LET Started(startAddress) ==
        [st EXCEPT !.errors = IF st.foundStart
                              THEN Append(@, P1Error(line, "Duplicate START directive"))
                              ELSE @,
                   !.foundStart = TRUE,
                   !.startAddress = startAddress,
                   !.locctr = startAddress,
                   !.programName = IF Len(line.label) > 0 THEN line.label ELSE "PROG",
                   !.symbolTable = IF Len(line.label) > 0
                                   THEN SymPut(@, ToUpperCase(line.label), startAddress)
                                   ELSE @,
                   !.intermediateFile = Append(@, Intermediate(line, Some(startAddress), 0))]
  IN  Started(StartOperandValue(line))

Pass1End(st, line) ==
  [st EXCEPT !.foundEnd = TRUE,
             !.intermediateFile = Append(@, Intermediate(line, Some(st.locctr), 0))]

Pass1Equ(st, line) ==
  LET currentLocctr == st.locctr
      operand == line.operand
      pushed == [st EXCEPT !.intermediateFile =
                             Append(@, Intermediate(line, Some(currentLocctr), 0))]
      Defined(label, value) ==
        IF ~IsNull(value)
        THEN IF label \in DOMAIN st.symbolTable
             THEN [pushed EXCEPT !.errors = Append(@, P1Error(line, "Duplicate symbol"))]
             ELSE [pushed EXCEPT !.symbolTable = SymPut(@, label, Val(value))]
        ELSE [pushed EXCEPT !.deferredEQUs =
                              Append(@, [line |-> line, label |-> label, operand |-> operand,
                                         locctr |-> currentLocctr,
                                         intermediateIndex |-> Len(st.intermediateFile)])]
  IN  IF Len(line.label) = 0
      THEN [pushed EXCEPT !.errors = Append(@, P1Error(line, "EQU directive requires a label"))]
      ELSE IF Len(operand) = 0
      THEN [pushed EXCEPT !.errors = Append(@, P1Error(line, "EQU directive requires an operand"))]
      ELSE Defined(ToUpperCase(line.label),
                   IF operand = "*" THEN Some(st.locctr)
                   ELSE evaluateExpression(operand, st.symbolTable, st.locctr))

(* the location an ORG line is recorded at: the counter after the update *)
OrgEntryLocation(oldLocctr, newLocctr) == newLocctr

Pass1Org(st, line) ==
  LET Moved(locctr, errors) ==
        [st EXCEPT !.locctr = locctr,
                   !.errors = errors,
                   !.intermediateFile =
                      Append(@, Intermediate(line, Some(OrgEntryLocation(st.locctr, locctr)), 0))]
      Evaluated(value) ==
        IF IsNull(value)
        THEN Moved(st.locctr, Append(st.errors, P1Error(line, "Cannot evaluate ORG expression")))
        ELSE Moved(Val(value), st.errors)
  IN  IF Len(line.operand) = 0
      THEN Moved(st.locctr,
                 Append(st.errors, P1Error(line, "ORG directive requires an address operand")))
      ELSE Evaluated(evaluateExpression(line.operand, st.symbolTable, st.locctr))

(* every line counted as three bytes *)
AdvanceLocctrByWord(locctr, size) == locctr + 3

(* locctr += size *)
AdvanceLocctr(locctr, size) == locctr + size

(* an instruction or a directive other than START, END, EQU, ORG *)
Pass1Other(st, line) ==
  LET currentLocctr == st.locctr
      Labelled(label, sized) ==
        [st EXCEPT !.symbolTable = IF Len(line.label) > 0 /\ label \notin DOMAIN @
                                   THEN SymPut(@, label, st.locctr)
                                   ELSE @,
                   !.errors = (IF Len(line.label) > 0 /\ label \in DOMAIN st.symbolTable
                               THEN Append(@, P1Error(line, "Duplicate symbol"))
                               ELSE @) \o sized.errors,
                   !.intermediateFile =
                      Append(@, Intermediate(line, Some(currentLocctr), sized.size)),
                   !.locctr = AdvanceLocctr(st.locctr, sized.size)]
  IN  Labelled(ToUpperCase(line.label), calculateInstructionSize(line))

(* the body of the loop over the lines; nothing is processed after END (break) *)
Pass1Line(st, line) ==
  LET Dispatch(opcode) ==
        IF opcode = "START" THEN Pass1Start(st, line)
        ELSE IF opcode = "END" THEN Pass1End(st, line)
        ELSE IF opcode = "EQU" THEN Pass1Equ(st, line)
        ELSE IF opcode = "ORG" THEN Pass1Org(st, line)
        ELSE Pass1Other(st, line)
  IN  IF st.foundEnd THEN st
      ELSE IF line.isEmpty \/ line.isComment THEN Pass1Blank(st, line)
      ELSE Dispatch(ToUpperCase(line.opcode))

RECURSIVE Pass1Scan(_, _, _)
Pass1Scan(st, ls, k) ==
  IF k > Len(ls) THEN st ELSE Pass1Scan(Pass1Line(st, ls[k]), ls, k + 1)

RemoveAt(seq, k) == SubSeq(seq, 1, k - 1) \o SubSeq(seq, k + 1, Len(seq))

(* one pass of the deferred-EQU loop, from the last deferred entry down to the first *)
RECURSIVE ResolvePass(_, _, _)
ResolvePass(st, k, resolvedCount) ==
  LET Resolved(deferred, value) ==
        IF IsNull(value) THEN ResolvePass(st, k - 1, resolvedCount)
        ELSE ResolvePass(
               [st EXCEPT !.errors = IF deferred.label \in DOMAIN st.symbolTable
                                     THEN Append(@, P1Error(deferred.line, "Duplicate symbol"))
                                     ELSE @,
                          !.symbolTable = IF deferred.label \in DOMAIN st.symbolTable
                                          THEN @
                                          ELSE SymPut(@, deferred.label, Val(value)),
                          !.deferredEQUs = RemoveAt(@, k)],
               k - 1, resolvedCount + 1)
  IN  IF k < 1 THEN [st |-> st, resolvedCount |-> resolvedCount]
      ELSE Resolved(st.deferredEQUs[k],
                    evaluateExpression(st.deferredEQUs[k].operand, st.symbolTable,
                                       st.deferredEQUs[k].locctr))

(* a single pass over the deferred EQUs *)
ResolveOnce(st, resolvedCount, iterations, maxIterations) ==
  ResolvePass(st, Len(st.deferredEQUs), 0).st

(* while (resolvedCount > 0 && iterations < maxIterations) *)
RECURSIVE ResolveDeferred(_, _, _, _)
ResolveDeferred(st, resolvedCount, iterations, maxIterations) ==
  LET Again(pass) == ResolveDeferred(pass.st, pass.resolvedCount, iterations + 1, maxIterations)
  IN  IF resolvedCount > 0 /\ iterations < maxIterations
      THEN Again(ResolvePass(st, Len(st.deferredEQUs), 0))
      ELSE st

UnresolvedErrors(deferredEQUs) ==
  [k \in 1..Len(deferredEQUs) |-> P1Error(deferredEQUs[k].line, "Cannot evaluate EQU expression")]

ProgramLength(locctr, startAddress) == locctr - startAddress

executePass1(ls) ==
  LET Result(resolved, errors) ==
        [intermediateFile |-> resolved.intermediateFile,
         symbolTable |-> resolved.symbolTable,
         programName |-> resolved.programName,
         startAddress |-> resolved.startAddress,
         programLength |-> ProgramLength(resolved.locctr, resolved.startAddress),
         errors |-> errors,
         success |-> ~HasError(errors)]
      Reported(resolved) ==
        Result(resolved,
               resolved.errors \o UnresolvedErrors(resolved.deferredEQUs)
                 \o (IF resolved.foundEnd THEN <<>>
                     ELSE <<[lineNumber |-> Len(ls), message |-> "Missing END directive",
                             type |-> "warning", phase |-> "pass1"]>>))
      Deferred(scanned) ==
        Reported(ResolveDeferred(scanned, 1, 0, Len(scanned.deferredEQUs) + 1))
  IN  Deferred(Pass1Scan(Pass1Init, ls, 1))


-----------------------------------------------------------------------------
(* sicxePass2.ts *)

(* one term of a Pass 2 operand expression: the symbol table, then a number *)
Pass2Term(token, symbolTable) ==
  IF token \in DOMAIN symbolTable THEN Some(symbolTable[token])
  ELSE parseNumericOperand(token)

evaluateOperandExpression(operand, symbolTable) ==
  LET Combine(tokens, operators, terms) ==
        IF Len(tokens) = 1 /\ Len(operators) = 0 THEN None
        ELSE IF \E k \in 1..Len(tokens) : IsNull(terms[k]) THEN None
        ELSE IF Len(tokens) = 0 THEN None
        ELSE Some(ApplyOperators(Val(terms[1]), [k \in 1..Len(tokens) |-> Val(terms[k])],
                                 operators, 1))
      Terms(split) ==
        Combine(split.tokens, split.operators,
                [k \in 1..Len(split.tokens) |-> Pass2Term(split.tokens[k], symbolTable)])
      Eval(trimmed, expr, numValue) ==
        IF Len(trimmed) = 0 THEN None
        ELSE IF expr \in DOMAIN symbolTable THEN Some(symbolTable[expr])
        ELSE IF ~IsNull(numValue) THEN numValue
        ELSE Terms(SplitTerms(expr, "", <<>>, <<>>))
      Upper(trimmed) == Eval(trimmed, ToUpperCase(trimmed), parseNumericOperand(operand))
  IN  Upper(Trim(operand))

(* createErrorEntry, and baseEntry of handleDirective *)
createErrorEntry(line) ==
  [line |-> line, format |-> 0, nixbpe |-> <<>>, targetAddress |-> None,
   displacement |-> None, displacementMode |-> "none", addressingMode |-> "",
   objectCode |-> "", needsModification |-> FALSE]

(* the printable ASCII characters from code 35 to 91, 93 to 95 and 97 to 122 *)
Ascii35 == "#$%&'()*+,-./0123456789:;<=>?@ABCDEFGHIJKLMNOPQRSTUVWXYZ["

Ascii93 == "]^_"

Ascii97 == "abcdefghijklmnopqrstuvwxyz"

(* c.charCodeAt(0), for the characters a source line is written with *)
CharCode(c) ==
  IF c = " " THEN 32
  ELSE IF c = "!" THEN 33
  ELSE IF Includes(Ascii35, c) THEN 34 + (CHOOSE k \in 1..Len(Ascii35) : Ch(Ascii35, k) = c)
  ELSE IF Includes(Ascii93, c) THEN 92 + (CHOOSE k \in 1..Len(Ascii93) : Ch(Ascii93, k) = c)
  ELSE 96 + (CHOOSE k \in 1..Len(Ascii97) : Ch(Ascii97, k) = c)

RECURSIVE CharCodesHex(_)
CharCodesHex(value) ==
  IF Len(value) = 0 THEN ""
  ELSE PadStart(ToHex(CharCode(Head(value))), 2, "0") \o CharCodesHex(Tail(value))

generateByteCode(operand) ==
  LET Code(extracted) ==
        IF extracted.type = "none" THEN ""
        ELSE IF extracted.type = "char" THEN CharCodesHex(extracted.value)
        ELSE ToUpperCase(extracted.value)
  IN  IF Len(operand) = 0 THEN "" ELSE Code(extractByteConstant(operand))

(* value < 0 ? (1 << 24) + value : value, then & 0xFFFFFF *)
Word24(value) == (IF value < 0 THEN 16777216 + value ELSE value) % 16777216

(* a plain symbol reference, without '+' or '-' *)
IsSimpleSymbol(operand, symbolTable) ==
  ToUpperCase(operand) \in DOMAIN symbolTable
    /\ ~Includes(operand, "+") /\ ~Includes(operand, "-")

generateWordCode(operand, symbolTable) ==
  LET Code(exprValue) ==
        IF ~IsNull(exprValue)
        THEN [code |-> PadStart(ToHex(Word24(Val(exprValue))), 6, "0"),
              needsModification |-> IsSimpleSymbol(operand, symbolTable),
              error |-> ""]
        ELSE [code |-> "", needsModification |-> FALSE, error |-> "Cannot evaluate WORD operand"]
  IN  IF Len(operand) = 0
      THEN [code |-> "", needsModification |-> FALSE, error |-> "WORD requires an operand"]
      ELSE Code(evaluateOperandExpression(operand, symbolTable))

(* an absent baseUpdate taken as null *)
BaseCleared == [set |-> TRUE, value |-> <<>>]

(* baseUpdate: [set |-> FALSE] when the field is absent, else the new value *)
NoBaseUpdate == [set |-> FALSE, value |-> None]

BaseOperandValue(operand, symbolTable) ==
  IF operand \in DOMAIN symbolTable THEN Some(symbolTable[operand])
  ELSE parseNumericOperand(operand)

handleDirective(directive, line, symbolTable) ==
  LET Plain(baseEntry) == [entry |-> baseEntry, baseUpdate |-> NoBaseUpdate, error |-> ""]
      Base(plain, baseValue) ==
        IF ~IsNull(baseValue)
        THEN [plain EXCEPT !.baseUpdate = [set |-> TRUE, value |-> baseValue]]
        ELSE [plain EXCEPT !.error = "Undefined symbol for BASE"]
      Word(plain, wordCode) ==
        [plain EXCEPT !.entry.objectCode = wordCode.code,
                      !.entry.needsModification = wordCode.needsModification,
                      !.error = wordCode.error]
      Handle(plain) ==
        CASE directive \in {"START", "END", "LTORG", "EQU", "ORG"} -> plain
          [] directive = "BASE" ->
               IF Len(line.operand) = 0 THEN plain
               ELSE Base(plain, BaseOperandValue(ToUpperCase(line.operand), symbolTable))
          [] directive = "NOBASE" ->
               [plain EXCEPT !.baseUpdate = [set |-> TRUE, value |-> None]]
          [] directive = "BYTE" ->
               [plain EXCEPT !.entry.objectCode = generateByteCode(line.operand)]
          [] directive = "WORD" -> Word(plain, generateWordCode(line.operand, symbolTable))
          [] OTHER -> plain
  IN  Handle(Plain(createErrorEntry(line)))

Hex2(byte) == PadStart(ToHex(byte), 2, "0")

generateFormat1(line, opcodeEntry) ==
  [entry |-> [createErrorEntry(line) EXCEPT !.format = 1, !.objectCode = Hex2(opcodeEntry.opcode)],
   error |-> ""]

(* the register nibble of the first operand: a register code, else a decimal number *)
Format2R1(part) ==
  LET Code(register) ==
        IF ~IsNull(register) THEN Val(register)
        ELSE IF isValidDecimalNumber(part) THEN ParseInt10(part)
        ELSE 0
  IN  Code(getRegisterCode(part))

(* the second operand: a register code, else a decimal shift count minus one *)
Format2R2(part) ==
  LET Code(register) ==
        IF ~IsNull(register) THEN Val(register)
        ELSE IF isValidDecimalNumber(part) THEN ParseInt10(part) - 1
        ELSE 0
  IN  Code(getRegisterCode(part))

generateFormat2(line, opcodeEntry) ==
  LET Code(parts) ==
        Hex2(opcodeEntry.opcode)
          \o ToHex(IF Len(parts) >= 1 /\ Len(parts[1]) > 0 THEN Format2R1(parts[1]) ELSE 0)
          \o ToHex(IF Len(parts) >= 2 /\ Len(parts[2]) > 0 THEN Format2R2(parts[2]) ELSE 0)
  IN  [entry |-> [createErrorEntry(line) EXCEPT
                    !.format = 2,
                    !.objectCode = Code(SplitComma(line.operand, "", <<>>))],
       error |-> ""]


(* the upper limit off by one *)
FitsPCInclusive(pcDisp) == pcDisp >= -2048 /\ pcDisp <= 2048

(* the inclusive limits of a signed 12-bit PC displacement and of an unsigned *)
(* 12-bit BASE displacement                                                   *)
FitsPC(pcDisp) == pcDisp >= -2048 /\ pcDisp <= 2047

FitsBase(baseDisp) == baseDisp >= 0 /\ baseDisp <= 4095

(* a negative displacement stored as its magnitude *)
EncodePCMagnitude(pcDisp) == IF pcDisp < 0 THEN 0 - pcDisp ELSE pcDisp

(* pcDisp < 0 ? (pcDisp + 4096) & 0xFFF : pcDisp *)
EncodePC(pcDisp) == IF pcDisp < 0 THEN (pcDisp + 4096) % 4096 ELSE pcDisp

calculateDisplacement(targetAddress, pc, baseRegister) ==
  LET pcDisp == targetAddress - pc
      baseDisp == targetAddress - Val(baseRegister)
  IN  IF FitsPC(pcDisp)
      THEN [displacement |-> EncodePC(pcDisp), b |-> 0, p |-> 1, mode |-> "PC-relative",
            error |-> ""]
      ELSE IF ~IsNull(baseRegister) /\ FitsBase(baseDisp)
      THEN [displacement |-> baseDisp, b |-> 1, p |-> 0, mode |-> "BASE-relative",
            error |-> ""]
      ELSE [displacement |-> 0, b |-> 0, p |-> 0, mode |-> "none",
            error |-> "Target address is out of range"]

(* n and i exchanged for the two prefixes *)
PrefixModeSwapped(addressingPrefix) ==
  IF addressingPrefix = "#" THEN [n |-> 1, i |-> 0, addressingMode |-> "immediate"]
  ELSE IF addressingPrefix = "@" THEN [n |-> 0, i |-> 1, addressingMode |-> "indirect"]
  ELSE [n |-> 1, i |-> 1, addressingMode |-> "simple"]

(* (n, i) and the addressing mode chosen by the operand prefix *)
PrefixMode(addressingPrefix) ==
  IF addressingPrefix = "#" THEN [n |-> 0, i |-> 1, addressingMode |-> "immediate"]
  ELSE IF addressingPrefix = "@" THEN [n |-> 1, i |-> 0, addressingMode |-> "indirect"]
  ELSE [n |-> 1, i |-> 1, addressingMode |-> "simple"]

resolveAddressing(line, symbolTable) ==
  LET Resolved(mode, x, targetAddress) ==
        [n |-> mode.n, i |-> mode.i, x |-> x, addressingMode |-> mode.addressingMode,
         targetAddress |-> targetAddress,
         error |-> IF Len(line.operand) > 0 /\ IsNull(targetAddress)
                        /\ mode.addressingMode # "immediate"
                   THEN "Cannot resolve operand"
                   ELSE ""]
      Clean(suffixed, cleanOperand) ==
        Resolved(PrefixMode(line.addressingPrefix),
                 IF line.indexed \/ (Len(line.operand) > 0 /\ suffixed) THEN 1 ELSE 0,
                 IF Len(line.operand) > 0
                 THEN evaluateOperandExpression(cleanOperand, symbolTable)
                 ELSE None)
      Suffix(noPrefix, suffixed) ==
        Clean(suffixed,
              IF suffixed THEN SubSeq(noPrefix, 1, Len(noPrefix) - 2) ELSE noPrefix)
      NoPrefix(noPrefix) == Suffix(noPrefix, EndsWith(ToUpperCase(noPrefix), ",X"))
  IN  NoPrefix(IF StartsWith(line.operand, "#") \/ StartsWith(line.operand, "@")
               THEN SubSeq(line.operand, 2, Len(line.operand))
               ELSE line.operand)

(* line.operand.replace(/^#/, '') *)
StripHash(operand) ==
  IF StartsWith(operand, "#") THEN SubSeq(operand, 2, Len(operand)) ELSE operand

(* an immediate operand that is a number and not the name of a symbol *)
IsImmediateLiteral(operand, symbolTable) ==
  LET Literal(stripped) ==
        ~IsNull(parseNumericOperand(stripped)) /\ ToUpperCase(stripped) \notin DOMAIN symbolTable
  IN  Literal(StripHash(operand))

Byte1(opcode, nixbpe) == (opcode \div 4) * 4 + nixbpe.n * 2 + nixbpe.i

FlagNibble(nixbpe) == nixbpe.x * 8 + nixbpe.b * 4 + nixbpe.p * 2 + nixbpe.e

buildFormat3ObjectCode(opcode, nixbpe, displacement) ==
  Hex2(Byte1(opcode, nixbpe))
    \o Hex2(FlagNibble(nixbpe) * 16 + ((displacement \div 256) % 16))
    \o Hex2(displacement % 256)

buildFormat4ObjectCode(opcode, nixbpe, address) ==
  Hex2(Byte1(opcode, nixbpe))
    \o Hex2(FlagNibble(nixbpe) * 16 + ((address \div 65536) % 16))
    \o Hex2((address \div 256) % 256)
    \o Hex2(address % 256)

(* the e flag left clear in both formats *)
ExtendedFlagClear(format) == 0

(* the e flag of a Format 3 and of a Format 4 instruction *)
ExtendedFlag(format) == IF format = 4 THEN 1 ELSE 0

generateFormat3(line, opcodeEntry, entry, symbolTable, baseRegister) ==
  LET currentLocation == IF IsNull(entry.locctr) THEN 0 ELSE Val(entry.locctr)
      pc == currentLocation + 3
      Built(addr, disp, nixbpe) ==
        [entry |-> [line |-> line, format |-> 3, nixbpe |-> <<nixbpe>>,
                    targetAddress |-> addr.targetAddress,
                    displacement |-> Some(disp.displacement),
                    displacementMode |-> disp.mode,
                    addressingMode |-> addr.addressingMode,
                    objectCode |-> buildFormat3ObjectCode(opcodeEntry.opcode, nixbpe,
                                                          disp.displacement),
                    needsModification |-> FALSE],
         error |-> ""]
      Displaced(addr, disp) ==
        IF disp.error # "" THEN [entry |-> createErrorEntry(line), error |-> disp.error]
        ELSE Built(addr, disp,
                   [n |-> addr.n, i |-> addr.i, x |-> addr.x, b |-> disp.b, p |-> disp.p,
                    e |-> ExtendedFlag(3)])
      Addressed(addr) ==
        IF addr.error # "" THEN [entry |-> createErrorEntry(line), error |-> addr.error]
        ELSE Displaced(
               addr,
               IF addr.addressingMode = "immediate" /\ ~IsNull(addr.targetAddress)
                    /\ Len(line.operand) > 0 /\ IsImmediateLiteral(line.operand, symbolTable)
               THEN [displacement |-> Val(parseNumericOperand(StripHash(line.operand))) % 4096,
                     b |-> 0, p |-> 0, mode |-> "direct", error |-> ""]
               ELSE IF ~IsNull(addr.targetAddress)
               THEN calculateDisplacement(Val(addr.targetAddress), pc, baseRegister)
               ELSE [displacement |-> 0, b |-> 0, p |-> 0, mode |-> "none", error |-> ""])
  IN  Addressed(resolveAddressing(line, symbolTable))

(* whether a Format 4 instruction gets a modification record *)
Format4NeedsModification(addr, line, symbolTable) ==
  IF addr.addressingMode = "immediate" /\ Len(line.operand) > 0
  THEN ~IsImmediateLiteral(line.operand, symbolTable)
  ELSE IF ~IsNull(addr.targetAddress) THEN addr.n = 1 /\ addr.i = 1
  ELSE FALSE

generateFormat4(line, opcodeEntry, entry, symbolTable) ==
  LET Built(addr, address, nixbpe) ==
        [entry |-> [line |-> line, format |-> 4, nixbpe |-> <<nixbpe>>,
                    targetAddress |-> addr.targetAddress,
                    displacement |-> Some(address),
                    displacementMode |-> "direct",
                    addressingMode |-> addr.addressingMode,
                    objectCode |-> buildFormat4ObjectCode(opcodeEntry.opcode, nixbpe, address),
                    needsModification |-> Format4NeedsModification(addr, line, symbolTable)],
         error |-> ""]
      Addressed(addr) ==
        IF addr.error # "" THEN [entry |-> createErrorEntry(line), error |-> addr.error]
        ELSE Built(addr,
                   IF addr.addressingMode = "immediate" /\ Len(line.operand) > 0
                        /\ IsImmediateLiteral(line.operand, symbolTable)
                   THEN Val(parseNumericOperand(StripHash(line.operand)))
                   ELSE IF IsNull(addr.targetAddress) THEN 0 ELSE Val(addr.targetAddress),
                   [n |-> addr.n, i |-> addr.i, x |-> addr.x, b |-> 0, p |-> 0,
                    e |-> ExtendedFlag(4)])
  IN  Addressed(resolveAddressing(line, symbolTable))

generateInstructionCode(line, entry, symbolTable, baseRegister) ==
  LET isExtended == line.isExtended \/ StartsWith(line.opcode, "+")
      Generate(opcodeEntry, format) ==
        CASE format = 1 -> generateFormat1(line, opcodeEntry)
          [] format = 2 -> generateFormat2(line, opcodeEntry)
          [] format = 3 -> generateFormat3(line, opcodeEntry, entry, symbolTable, baseRegister)
          [] format = 4 -> generateFormat4(line, opcodeEntry, entry, symbolTable)
      Found(found) ==
        IF found = <<>> THEN [entry |-> createErrorEntry(line), error |-> "Unknown opcode"]
        ELSE Generate(found[1], IF isExtended THEN 4 ELSE found[1].format)
  IN  Found(getOpcodeEntry(StripPlus(ToUpperCase(line.opcode))))

P2Error(entry, message) ==
  [lineNumber |-> entry.line.lineNumber, message |-> message, type |-> "error", phase |-> "pass2"]

(* the body of the loop over the intermediate file *)
Pass2Line(st, entry) ==
  LET line == entry.line
      Generated(result) ==
        [st EXCEPT !.baseRegister = IF result.baseUpdate.set THEN result.baseUpdate.value ELSE @,
                   !.errors = IF result.error # ""
                              THEN Append(@, P2Error(entry, result.error)) ELSE @,
                   !.entries = Append(@, result.entry)]
      Instruction(result) ==
        Generated([entry |-> result.entry, baseUpdate |-> NoBaseUpdate, error |-> result.error])
      Dispatch(opcode) ==
        IF isDirective(opcode)
        THEN Generated(handleDirective(opcode, line, st.symbolTable))
        ELSE Instruction(generateInstructionCode(line, entry, st.symbolTable, st.baseRegister))
  IN  IF line.isEmpty \/ line.isComment
      THEN [st EXCEPT !.entries = Append(@, createErrorEntry(line))]
      ELSE Dispatch(ToUpperCase(line.opcode))

RECURSIVE Pass2Scan(_, _, _)
Pass2Scan(st, intermediateFile, k) ==
  IF k > Len(intermediateFile) THEN st
  ELSE Pass2Scan(Pass2Line(st, intermediateFile[k]), intermediateFile, k + 1)

executePass2(p1) ==
  LET Result(scanned) ==
        [entries |-> scanned.entries,
         errors |-> scanned.errors,
         success |-> ~HasError(scanned.errors),
         baseRegister |-> scanned.baseRegister]
  IN  Result(Pass2Scan([symbolTable |-> p1.symbolTable, entries |-> <<>>,
                        errors |-> <<>>, baseRegister |-> None],
                       p1.intermediateFile, 1))


-----------------------------------------------------------------------------
(* objectProgram.ts *)

(* A byte count is carried in half-bytes (hex characters): objectCode.length / 2 *)
(* is a fraction when an object code has an odd number of characters.            *)

Hex6(n) == PadStart(ToHex(n), 6, "0")

(* the count of hex characters printed where the count of bytes belongs *)
ByteCountHexOfChars(halfBytes) == PadStart(ToHex(halfBytes), 2, "0")

(* byteCount.toString(16).toUpperCase().padStart(2, '0') of halfBytes / 2 *)
ByteCountHex(halfBytes) ==
  PadStart(IF halfBytes % 2 = 0 THEN ToHex(halfBytes \div 2)
                                ELSE ToHex(halfBytes \div 2) \o ".8", 2, "0")

generateHeaderRecord(programName, startAddress, programLength) ==
  LET Header(name) ==
        [type |-> "H", programName |-> name, startAddress |-> startAddress,
         programLength |-> programLength,
         raw |-> "H^" \o name \o "^" \o Hex6(startAddress) \o "^" \o Hex6(programLength)]
  IN  Header(PadEnd(SubSeq(programName, 1, IF Len(programName) < 6 THEN Len(programName) ELSE 6),
                    6, " "))

finalizeTextRecord(startAddress, objectCode, halfBytes) ==
  [type |-> "T", startAddress |-> startAddress, halfBytes |-> halfBytes,
   objectCode |-> objectCode,
   raw |-> "T^" \o Hex6(startAddress) \o "^" \o ByteCountHex(halfBytes) \o "^" \o objectCode]

(* entry.line.location ?? 0 *)
LocationOf(entry) == IF IsNull(entry.line.location) THEN 0 ELSE Val(entry.line.location)

(* currentByteCount + objectCodeBytes > 30 *)
RecordFull(currentHalfBytes, codeHalfBytes) == currentHalfBytes + codeHalfBytes > 60

(* the body of the loop of generateTextRecords; currentBytes is kept joined *)
TextStep(st, entry) ==
  LET codeHalfBytes == Len(entry.objectCode)
      Opened(records) == [records |-> records, currentStart |-> Some(LocationOf(entry)),
                          currentBytes |-> entry.objectCode,
                          currentByteCount |-> codeHalfBytes]
      Step(closed) ==
        IF Len(entry.objectCode) = 0
        THEN IF Len(st.currentBytes) > 0 /\ ~IsNull(st.currentStart)
             THEN [records |-> closed, currentStart |-> None, currentBytes |-> "",
                   currentByteCount |-> 0]
             ELSE st
        ELSE IF IsNull(st.currentStart) THEN Opened(st.records)
        ELSE IF RecordFull(st.currentByteCount, codeHalfBytes) THEN Opened(closed)
        ELSE [st EXCEPT !.currentBytes = @ \o entry.objectCode,
                        !.currentByteCount = @ + codeHalfBytes]
  IN  Step(IF IsNull(st.currentStart) THEN st.records
           ELSE Append(st.records,
                       finalizeTextRecord(Val(st.currentStart), st.currentBytes,
                                          st.currentByteCount)))

RECURSIVE TextScan(_, _, _)
TextScan(st, entries, k) ==
  IF k > Len(entries) THEN st ELSE TextScan(TextStep(st, entries[k]), entries, k + 1)

generateTextRecords(p2) ==
  LET Last(st) ==
        IF Len(st.currentBytes) > 0 /\ ~IsNull(st.currentStart)
        THEN Append(st.records,
                    finalizeTextRecord(Val(st.currentStart), st.currentBytes, st.currentByteCount))
        ELSE st.records
  IN  Last(TextScan([records |-> <<>>, currentStart |-> None, currentBytes |-> "",
                     currentByteCount |-> 0], p2.entries, 1))

(* every flagged entry relocated, a WORD too *)
NeedsModificationRecordAnyFormat(entry) == entry.needsModification

(* the entries that get a modification record *)
NeedsModificationRecord(entry) == entry.needsModification /\ entry.format = 4

ModificationRecord(entry, programName) ==
  LET Record(modAddress) ==
        [type |-> "M", address |-> modAddress, length |-> 5, symbol |-> programName,
         sign |-> "+",
         raw |-> "M^" \o Hex6(modAddress) \o "^" \o Hex2(5) \o "^+"
                   \o SubSeq(programName, 1, IF Len(programName) < 6 THEN Len(programName) ELSE 6)]
  IN  Record(LocationOf(entry) + 1)

RECURSIVE ModificationScan(_, _, _, _)
ModificationScan(records, entries, programName, k) ==
  IF k > Len(entries) THEN records
  ELSE ModificationScan(IF NeedsModificationRecord(entries[k])
                        THEN Append(records, ModificationRecord(entries[k], programName))
                        ELSE records,
                        entries, programName, k + 1)

generateModificationRecords(p2, programName) ==
  ModificationScan(<<>>, p2.entries, programName, 1)

generateEndRecord(firstExecAddress) ==
  [type |-> "E", firstExecAddress |-> firstExecAddress, raw |-> "E^" \o Hex6(firstExecAddress)]

findFirstExecutableAddress(p1, p2) ==
  LET hits == {k \in 1..Len(p2.entries) :
                 /\ ToUpperCase(p2.entries[k].line.opcode) = "END"
                 /\ Len(p2.entries[k].line.operand) > 0
                 /\ ToUpperCase(p2.entries[k].line.operand) \in DOMAIN p1.symbolTable}
      first == CHOOSE k \in hits : \A j \in hits : k <= j
  IN  IF hits = {} THEN p1.startAddress
      ELSE p1.symbolTable[ToUpperCase(p2.entries[first].line.operand)]

generateObjectProgram(p1, p2) ==
  LET Program(header, textRecords, modificationRecords, endRecord) ==
        [programName |-> p1.programName, startAddress |-> p1.startAddress,
         programLength |-> p1.programLength, header |-> header, textRecords |-> textRecords,
         modificationRecords |-> modificationRecords, endRecord |-> endRecord,
         rawRecords |-> <<header.raw>>
                          \o [k \in 1..Len(textRecords) |-> textRecords[k].raw]
                          \o [k \in 1..Len(modificationRecords) |-> modificationRecords[k].raw]
                          \o <<endRecord.raw>>]
  IN  Program(generateHeaderRecord(p1.programName, p1.startAddress, p1.programLength),
              generateTextRecords(p2),
              generateModificationRecords(p2, p1.programName),
              generateEndRecord(findFirstExecutableAddress(p1, p2)))

(* parseInt(chunk, 16): an optional '-', then the leading hex digits; NaN is <<>> *)
RECURSIVE HexPrefix(_)
HexPrefix(s) ==
  IF Len(s) > 0 /\ Head(s) \in HexDigits THEN Head(s) \o HexPrefix(Tail(s)) ELSE ""

ParseHexChunk(chunk) ==
  LET negative == Len(chunk) > 0 /\ Head(chunk) = "-"
      Parsed(digits) ==
        IF Len(digits) = 0 THEN None
        ELSE Some(IF negative THEN 0 - ParseDigits(digits, 16, 0) ELSE ParseDigits(digits, 16, 0))
  IN  Parsed(HexPrefix(IF negative THEN Tail(chunk) ELSE chunk))

(* one element for each two characters, the last of one character when the *)
(* length is odd                                                            *)
hexStringToBytes(hex) ==
  [k \in 1..((Len(hex) + 1) \div 2) |->
     ParseHexChunk(SubSeq(hex, 2 * k - 1, IF 2 * k > Len(hex) THEN Len(hex) ELSE 2 * k))]

-----------------------------------------------------------------------------
(* memoryLoader.ts *)

MEMORY_SIZE == 1048576

SIC_MEMORY_SIZE == 32768

(* memory.bytes holds the cells that were written; every other cell of the *)
(* zero-filled array reads 0                                               *)
createEmptyMemory(size) ==
  [size |-> size, bytes |-> <<>>, programStart |-> 0, programEnd |-> 0, metadata |-> <<>>]

readByte(mem, address) == IF address \in DOMAIN mem.bytes THEN mem.bytes[address] ELSE 0

(* Map.set: a later entry at the same location replaces the earlier one *)
RECURSIVE AddressToLine(_, _, _)
AddressToLine(map, entries, k) ==
  IF k > Len(entries) THEN map
  ELSE AddressToLine(
         IF ~IsNull(entries[k].line.location) /\ Len(entries[k].objectCode) > 0
         THEN (Val(entries[k].line.location) :>
                 [lineNumber |-> entries[k].line.lineNumber,
                  instruction |-> Trim(entries[k].line.opcode \o " " \o entries[k].line.operand),
                  label |-> entries[k].line.label]) @@ map
         ELSE map,
         entries, k + 1)

(* the upper end of the range of addresses attributed to the last instruction *)
LastInstructionEnd(startAddr) == startAddr + 4

(* the start of the instruction a byte address is attributed to, or <<>> *)
byteToInstructionStart(addressToLine, address) ==
  LET starts == DOMAIN addressToLine
      below == {a \in starts : a <= address}
      startAddr == CHOOSE a \in below : \A o \in below : o <= a
      later == {a \in starts : a > startAddr}
      endAddr == IF later = {} THEN LastInstructionEnd(startAddr)
                 ELSE CHOOSE a \in later : \A o \in later : a <= o
  IN  IF below = {} THEN <<>>
      ELSE IF address < endAddr THEN <<startAddr>>
      ELSE <<>>

(* the cell one past the end accepted *)
InMemoryInclusive(address, memorySize) == address <= memorySize

(* the bound on the addresses a text record may write *)
InMemory(address, memorySize) == address < memorySize

(* a store into the Uint8Array: value modulo 256, NaN as 0; an index below 0 *)
(* is not an element of the array and the store has no effect                *)
StoreByte(bytes, address, value) ==
  IF address < 0 THEN bytes
  ELSE (address :> (IF IsNull(value) THEN 0 ELSE Val(value) % 256)) @@ bytes

(* the writes of one text record: byte k of its payload goes to          *)
(* startAddress + k - 1, each address once, when that address is in memory *)
LoadBytes(mem, addressToLine, startAddr, bytes, memorySize) ==
  LET Source(address, instructionStart) ==
        [address |-> address, value |-> bytes[address - startAddr + 1], type |-> "code",
         sourceLineNumber |-> IF IsNull(instructionStart) THEN None
                              ELSE Some(addressToLine[Val(instructionStart)].lineNumber),
         instruction |-> IF IsNull(instructionStart) THEN ""
                         ELSE addressToLine[Val(instructionStart)].instruction,
         label |-> IF IsNull(instructionStart) THEN ""
                   ELSE addressToLine[Val(instructionStart)].label]
      Written(addresses) ==
        [mem EXCEPT
           !.bytes = [a \in addresses \cup DOMAIN @ |->
                        IF a \in addresses
                        THEN StoreByte(@, a, bytes[a - startAddr + 1])[a]
                        ELSE @[a]],
           !.metadata = [a \in addresses |->
                           Source(a, byteToInstructionStart(addressToLine, a))] @@ @]
  IN  Written({startAddr + k - 1 : k \in {j \in 1..Len(bytes) :
                                            InMemory(startAddr + j - 1, memorySize)}})

RECURSIVE LoadTextRecords(_, _, _, _, _)
LoadTextRecords(mem, addressToLine, textRecords, k, memorySize) ==
  IF k > Len(textRecords) THEN mem
  ELSE LoadTextRecords(LoadBytes(mem, addressToLine, textRecords[k].startAddress,
                                 hexStringToBytes(textRecords[k].objectCode), memorySize),
                       addressToLine, textRecords, k + 1, memorySize)

(* the half-byte count rounded down *)
ModifiedBytesFloor(length) == length \div 2

(* Math.ceil(modRecord.length / 2) *)
ModifiedBytes(length) == (length + 1) \div 2

RECURSIVE MarkModified(_, _, _)
MarkModified(metadata, startAddr, count) ==
  IF count <= 0 THEN metadata
  ELSE LET address == startAddr + count - 1
       IN  MarkModified(IF address \in DOMAIN metadata
                        THEN [metadata EXCEPT ![address].type = "modified"]
                        ELSE metadata,
                        startAddr, count - 1)

RECURSIVE LoadModificationRecords(_, _, _)
LoadModificationRecords(metadata, modificationRecords, k) ==
  IF k > Len(modificationRecords) THEN metadata
  ELSE LoadModificationRecords(
         MarkModified(metadata, modificationRecords[k].address,
                      ModifiedBytes(modificationRecords[k].length)),
         modificationRecords, k + 1)

loadObjectProgram(program, p2, memorySize) ==
  LET Marked(loaded) ==
        [loaded EXCEPT !.metadata = LoadModificationRecords(@, program.modificationRecords, 1)]
  IN  Marked(LoadTextRecords(
               [createEmptyMemory(memorySize) EXCEPT
                  !.programStart = program.startAddress,
                  !.programEnd = program.startAddress + program.programLength],
               IF p2 = <<>> THEN <<>> ELSE AddressToLine(<<>>, p2[1].entries, 1),
               program.textRecords, 1, memorySize))


-----------------------------------------------------------------------------
(* source programs: tokenized lines as tokenizeLine produces them (opcode in  *)
(* upper case without '+', operand without '#' / '@' prefix and ',X' suffix)  *)

Line(label, opcode, operand) ==
  [lineNumber |-> 0, label |-> label, opcode |-> opcode, operand |-> operand,
   isEmpty |-> FALSE, isComment |-> FALSE, isExtended |-> FALSE,
   addressingPrefix |-> "", indexed |-> FALSE, location |-> None]

Ext(line) == [line EXCEPT !.isExtended = TRUE]

Imm(line) == [line EXCEPT !.addressingPrefix = "#"]

Ind(line) == [line EXCEPT !.addressingPrefix = "@"]

Idx(line) == [line EXCEPT !.indexed = TRUE]

CommentLine == [Line("", "", "") EXCEPT !.isComment = TRUE]

(* tokenize numbers the lines from 1 *)
Numbered(ls) == [k \in 1..Len(ls) |-> [ls[k] EXCEPT !.lineNumber = k]]

ScenarioA ==
  Numbered(<<Line("SIMPLE", "START", "0"),
             Line("", "LDA", "FIVE"),
             Line("", "ADD", "THREE"),
             Line("", "STA", "RESULT"),
             Line("", "RSUB", ""),
             Line("FIVE", "WORD", "5"),
             Line("THREE", "WORD", "3"),
             Line("RESULT", "RESW", "1"),
             Line("", "END", "SIMPLE")>>)

(* Scenario D: +JSUB RDREC at 0x1006 with RDREC = 0x2039 in the program COPY *)
ScenarioD ==
  Numbered(<<Line("COPY", "START", "1000"),
             Line("", "ORG", "1006"),
             Ext(Line("", "JSUB", "RDREC")),
             Line("", "ORG", "2039"),
             Line("RDREC", "RSUB", ""),
             Line("", "END", "COPY")>>)

MaxLines == 3

(* text records: long constants, reserved space, a counter moved back, a *)
(* program at the end of the 32 KiB memory                               *)
PackLines ==
  {Line("P", "START", "7FFE"),
   Line("", "BYTE", "C'ABCDEFGHIJKLMNOPQRSTUVWXYZ01234'"),
   Line("", "BYTE", "X'0102030405060708090A0B0C0D0E'"),
   Imm(Line("", "LDA", "1")),
   Line("", "RESB", "2"),
   Line("", "ORG", "0"),
   Line("", "SVC", "16")}

(* instruction formats, addressing modes, BASE and relocation *)
AddressLines ==
  {Line("", "BASE", "1000"),
   Line("", "NOBASE", ""),
   Line("", "LDA", "1800"),
   Idx(Line("SYM", "STA", "SYM")),
   Ind(Line("", "J", "SYM")),
   Ext(Line("FAR", "JSUB", "FAR")),
   Ext(Imm(Line("", "LDA", "4096"))),
   Ext(Imm(Line("", "LDT", "SYM"))),
   Line("W", "WORD", "W")}

(* sizes and the location counter *)
SizeLines ==
  {Line("COPY", "START", "1000"),
   Line("", "FIX", ""),
   Line("", "CLEAR", "A"),
   Line("BUF", "RESW", "2"),
   Line("HERE", "EQU", "*"),
   Line("", "ORG", "*+20"),
   Idx(Ext(Line("", "STA", "BUF"))),
   CommentLine,
   Line("", "END", "COPY")}

(* labels defined twice, EQU with forward, circular and self references, *)
(* a decimal-looking immediate operand                                   *)
SymbolLines ==
  {Line("BUFEND", "EQU", "BUFFER+4096"),
   Line("BUFFER", "RESB", "4096"),
   Line("BUFFER", "START", "1000"),
   Imm(Line("", "LDA", "100")),
   Line("X", "EQU", "Y"),
   Line("Y", "EQU", "X"),
   Line("Y", "EQU", "BUFFER"),
   Line("Z", "EQU", "Z")}

(* the base register from line to line, operands that do not resolve *)
ScopeLines ==
  {Line("", "BASE", "1000"),
   Line("", "BASE", "1700"),
   Line("TOP", "BASE", "TOP"),
   Line("", "BASE", "UNDEF"),
   Line("", "NOBASE", ""),
   Line("", "LDA", "1800"),
   Imm(Line("", "LDA", "UNDEF"))}

(* the '+' prefix on mnemonics of every format, Format 4 operands of every *)
(* kind, relocation at the end of the 32 KiB memory, a symbol whose name is *)
(* also a hex number                                                        *)
ExtendedLines ==
  {Line("P", "START", "7FFE"),
   Ext(Line("", "CLEAR", "A")),
   Ext(Line("", "LDA", "4096")),
   Ext(Line("FAR", "JSUB", "FAR")),
   Ext(Ind(Line("", "J", "FAR"))),
   Ext(Line("", "RSUB", "")),
   Line("B", "RESB", "1"),
   Line("", "LDA", "B")}

-----------------------------------------------------------------------------
(* the pipeline: each stage is applied to the output of the one before *)

Init ==
  /\ \/ lines \in {ScenarioA, ScenarioD}
     \/ \E family \in {PackLines, AddressLines, SizeLines, SymbolLines, ScopeLines} :
          \E k \in 1..MaxLines : \E ls \in [1..k -> family] : lines = Numbered(ls)
  /\ pass1Result = <<>>
  /\ pass2Result = <<>>
  /\ objectProgram = <<>>
  /\ memory = <<>>
  /\ dispIn = <<>>
  /\ dispOut = <<>>
  /\ store = <<>>
  /\ tasks = <<>>

RunPass1 ==
  /\ pass1Result = <<>>
  /\ pass1Result' = <<executePass1(lines)>>
  /\ UNCHANGED <<lines, pass2Result, objectProgram, memory, dispIn, dispOut, store, tasks>>

RunPass2 ==
  /\ pass1Result # <<>>
  /\ pass2Result = <<>>
  /\ pass2Result' = <<executePass2(pass1Result[1])>>
  /\ UNCHANGED <<lines, pass1Result, objectProgram, memory, dispIn, dispOut, store, tasks>>

GenerateProgram ==
  /\ pass1Result # <<>>
  /\ pass2Result # <<>>
  /\ objectProgram = <<>>
  /\ objectProgram' = <<generateObjectProgram(pass1Result[1], pass2Result[1])>>
  /\ UNCHANGED <<lines, pass1Result, pass2Result, memory, dispIn, dispOut, store, tasks>>

LoadIntoMemory(memorySize) ==
  /\ objectProgram # <<>>
  /\ memory = <<>>
  /\ memory' = <<loadObjectProgram(objectProgram[1], pass2Result, memorySize)>>
  /\ UNCHANGED <<lines, pass1Result, pass2Result, objectProgram, dispIn, dispOut, store, tasks>>

Next ==
  \/ RunPass1
  \/ RunPass2
  \/ GenerateProgram
  \/ \E memorySize \in {SIC_MEMORY_SIZE, MEMORY_SIZE} : LoadIntoMemory(memorySize)

Spec == Init /\ [][Next]_vars

InitExtended ==
  /\ \E k \in 1..MaxLines : \E ls \in [1..k -> ExtendedLines] : lines = Numbered(ls)
  /\ pass1Result = <<>>
  /\ pass2Result = <<>>
  /\ objectProgram = <<>>
  /\ memory = <<>>
  /\ dispIn = <<>>
  /\ dispOut = <<>>
  /\ store = <<>>
  /\ tasks = <<>>

SpecExtended == InitExtended /\ [][Next]_vars

-----------------------------------------------------------------------------
(* store.ts: the driver. The store is one record; an action of the store maps *)
(* the record to the record after the call. A source text is the sequence of  *)
(* its lines before they are numbered, the empty text is <<>>.                *)

MaxErrors == 3

MaxTasks == 2

(* the assemble() calls in flight at a time where every action of the store *)
(* may be called between their stages                                       *)
MaxStoreTasks == 1

(* a clean program, and programs that fail in the parser only, in Pass 1 and *)
(* in Pass 2                                                                 *)
Sources ==
  {<<>>,
   <<Imm(Line("", "LDA", "1"))>>,
   <<Idx(Imm(Line("", "LDA", "1")))>>,
   <<Line("X", "EQU", "Y")>>,
   <<Line("", "LDA", "UNDEF")>>}

initialState(code) ==
  [sourceCode |-> code, currentPhase |-> "idle", tokenizedLines |-> <<>>,
   pass1Result |-> <<>>, pass2Result |-> <<>>, objectProgram |-> <<>>, memory |-> <<>>,
   errors |-> <<>>]

(* the source replaced, the results of the old source kept *)
setSourceCodeOnly(s, code) == [s EXCEPT !.sourceCode = code]

setSourceCode(s, code) ==
  [s EXCEPT !.sourceCode = code, !.currentPhase = "idle", !.tokenizedLines = <<>>,
            !.pass1Result = <<>>, !.pass2Result = <<>>, !.objectProgram = <<>>,
            !.memory = <<>>, !.errors = <<>>]

(* the state with one error of the driver appended, in phase 'error' *)
Failed(s, message, phase) ==
  [s EXCEPT !.currentPhase = "error",
            !.errors = Append(@, [lineNumber |-> 0, message |-> message, type |-> "error",
                                  phase |-> phase])]

runLexer(s) ==
  LET started == [s EXCEPT !.currentPhase = "lexing", !.errors = <<>>]
      Tokenized(tokenizedLines) ==
        IF \A k \in 1..Len(tokenizedLines) :
             tokenizedLines[k].isEmpty \/ tokenizedLines[k].isComment
        THEN Failed(started, "No executable code found", "lexer")
        ELSE [started EXCEPT !.tokenizedLines = tokenizedLines]
  IN  IF Len(s.sourceCode) = 0 THEN Failed(started, "Source code is empty", "lexer")
      ELSE Tokenized(Numbered(s.sourceCode))

runParser(s) ==
  LET Parsed(lexed, parsed) ==
        [lexed EXCEPT !.errors = @ \o parsed.errors,
                      !.currentPhase = IF parsed.success THEN "parsing" ELSE "error"]
      Lexed(lexed) ==
        IF Len(s.tokenizedLines) = 0 /\ lexed.currentPhase = "error" THEN lexed
        ELSE IF Len(lexed.tokenizedLines) = 0
             THEN Failed(lexed, "No lines to parse", "parser")
             ELSE Parsed(lexed, parseAll(lexed.tokenizedLines))
  IN  Lexed(IF Len(s.tokenizedLines) = 0 THEN runLexer(s) ELSE s)

runPass1(s) ==
  LET NotOfPhase(errors, phase) == SelectSeq(errors, LAMBDA e : e.phase # phase)
      Done(lexed, result) ==
        [lexed EXCEPT !.pass1Result = <<result>>,
                      !.errors = NotOfPhase(@, "pass1") \o result.errors,
                      !.currentPhase = IF result.success THEN "pass1" ELSE "error"]
      Lexed(lexed) ==
        IF Len(s.tokenizedLines) = 0 /\ lexed.currentPhase = "error" THEN lexed
        ELSE IF Len(lexed.tokenizedLines) = 0
             THEN Failed(lexed, "No lines to process in Pass 1", "pass1")
             ELSE Done(lexed, executePass1(lexed.tokenizedLines))
  IN  Lexed(IF Len(s.tokenizedLines) = 0 THEN runLexer(s) ELSE s)

runPass2(s) ==
  LET NotOfPhase(errors, phase) == SelectSeq(errors, LAMBDA e : e.phase # phase)
      Done(first, result) ==
        [first EXCEPT !.pass2Result = <<result>>,
                      !.errors = NotOfPhase(@, "pass2") \o result.errors,
                      !.currentPhase = IF result.success THEN "pass2" ELSE "error"]
      First(first) ==
        IF first.pass1Result = <<>> \/ ~first.pass1Result[1].success
        THEN Failed(first, "Cannot run Pass 2: Pass 1 failed or not completed", "pass2")
        ELSE Done(first, executePass2(first.pass1Result[1]))
  IN  First(IF s.pass1Result = <<>> THEN runPass1(s) ELSE s)

generateProgram(s) ==
  LET Done(program) == [s EXCEPT !.objectProgram = <<program>>, !.currentPhase = "generating"]
  IN  IF s.pass1Result = <<>> \/ s.pass2Result = <<>>
      THEN Failed(s, "Cannot generate object program: Pass 1 or Pass 2 not completed", "pass2")
      ELSE IF ~s.pass2Result[1].success
      THEN Failed(s, "Cannot generate object program: Pass 2 completed with errors", "pass2")
      ELSE Done(generateObjectProgram(s.pass1Result[1], s.pass2Result[1]))

loadIntoMemory(s) ==
  LET Done(generated, loaded) ==
        [generated EXCEPT !.memory = <<loaded>>, !.currentPhase = "complete"]
      Generated(generated) ==
        IF generated.objectProgram = <<>>
        THEN Failed(generated, "Cannot load into memory: No object program generated", "loader")
        ELSE Done(generated,
                  loadObjectProgram(generated.objectProgram[1], s.pass2Result, SIC_MEMORY_SIZE))
  IN  Generated(IF s.objectProgram = <<>> THEN generateProgram(s) ELSE s)

(* the part of runAsync between two awaits: stage names the call it ends with; *)
(* [store, next], next = "done" after a return                                 *)
resume(s, stage) ==
  LET Stop(stopped) == [store |-> stopped, next |-> "done"]
      ParserErrors == \E k \in 1..Len(s.errors) :
                        s.errors[k].phase = "parser" /\ s.errors[k].type = "error"
      Failing(result) == result = <<>> \/ ~result[1].success
  IN  CASE stage = "parser" ->
             IF s.currentPhase = "error" THEN Stop(s)
             ELSE [store |-> runParser(s), next |-> "pass1"]
        [] stage = "pass1" ->
             IF ParserErrors THEN Stop([s EXCEPT !.currentPhase = "error"])
             ELSE [store |-> runPass1(s), next |-> "pass2"]
        [] stage = "pass2" ->
             IF s.currentPhase = "error" \/ Failing(s.pass1Result) THEN Stop(s)
             ELSE [store |-> runPass2(s), next |-> "generate"]
        [] stage = "generate" ->
             IF s.currentPhase = "error" \/ Failing(s.pass2Result) THEN Stop(s)
             ELSE [store |-> generateProgram(s), next |-> "load"]
        [] stage = "load" ->
             IF s.currentPhase = "error" THEN Stop(s)
             ELSE Stop(loadIntoMemory(s))

reset(s) == initialState(s.sourceCode)

InitStore ==
  /\ store \in {initialState(code) : code \in Sources}
  /\ tasks = [t \in 1..MaxTasks |-> "done"]
  /\ lines = <<>>
  /\ pass1Result = <<>>
  /\ pass2Result = <<>>
  /\ objectProgram = <<>>
  /\ memory = <<>>
  /\ dispIn = <<>>
  /\ dispOut = <<>>

(* assemble(): the errors are cleared, the lexer runs, and at the first await *)
(* the rest of the call is left as a task                                     *)
Assemble ==
  \E t \in 1..MaxTasks :
    /\ tasks[t] = "done"
    /\ \A u \in 1..(t - 1) : tasks[u] # "done"
    /\ store' = runLexer([store EXCEPT !.errors = <<>>, !.currentPhase = "lexing"])
    /\ tasks' = [tasks EXCEPT ![t] = "parser"]
    /\ UNCHANGED <<lines, pass1Result, pass2Result, objectProgram, memory, dispIn, dispOut>>

(* the timer of an await fires: the task runs to its next await or to its end *)
Resume(t) ==
  LET Resumed(resumed) ==
        /\ Len(resumed.store.errors) <= MaxErrors
        /\ store' = resumed.store
        /\ tasks' = [tasks EXCEPT ![t] = resumed.next]
  IN  /\ tasks[t] # "done"
      /\ Resumed(resume(store, tasks[t]))
      /\ UNCHANGED <<lines, pass1Result, pass2Result, objectProgram, memory, dispIn, dispOut>>

(* assemble() calls and what the claims let happen between their stages; *)
(* Call: a call of a synchronous action of the store                     *)
NextAssemble ==
  LET Call(after) ==
        /\ store' = after
        /\ UNCHANGED <<lines, pass1Result, pass2Result, objectProgram, memory,
                       dispIn, dispOut, tasks>>
  IN  \/ \E code \in Sources : Call(setSourceCode(store, code))
      \/ Call(reset(store))
      \/ Assemble
      \/ \E t \in 1..MaxTasks : Resume(t)

SpecAssemble == InitStore /\ [][NextAssemble]_vars

(* every action of the store, called in any order *)
NextStore ==
  LET Call(after) ==
        /\ Len(after.errors) <= MaxErrors
        /\ store' = after
        /\ UNCHANGED <<lines, pass1Result, pass2Result, objectProgram, memory,
                       dispIn, dispOut, tasks>>
  IN  \/ \E code \in Sources : Call(setSourceCode(store, code))
      \/ Call(runLexer(store))
      \/ Call(runParser(store))
      \/ Call(runPass1(store))
      \/ Call(runPass2(store))
      \/ Call(generateProgram(store))
      \/ Call(loadIntoMemory(store))
      \/ Call(reset(store))
      \/ (Cardinality({t \in 1..MaxTasks : tasks[t] # "done"}) < MaxStoreTasks /\ Assemble)
      \/ \E t \in 1..MaxTasks : Resume(t)

SpecStore == InitStore /\ [][NextStore]_vars

-----------------------------------------------------------------------------
(* C1: the program of Scenario A assembles to the symbol table SIMPLE=0,    *)
(* FIVE=0x0C, THREE=0x0F, RESULT=0x12, program length 0x15, and to exactly  *)
(* the records H, T, E below, without an M record.                          *)
ScenarioAResult ==
  (lines = ScenarioA /\ objectProgram # <<>>) =>
     /\ pass1Result[1].symbolTable =
          ("SIMPLE" :> 0) @@ ("FIVE" :> 12) @@ ("THREE" :> 15) @@ ("RESULT" :> 18)
     /\ pass1Result[1].programLength = 21
     /\ objectProgram[1].rawRecords =
          <<"H^SIMPLE^000000^000015",
            "T^000000^12^0320091B20090F20094F0000000005000003",
            "E^000000">>
     /\ objectProgram[1].modificationRecords = <<>>

ScenarioAAssembled == lines = ScenarioA /\ objectProgram # <<>>


(* C2: every T record has a byte count between 1 and 30 and a payload of *)
(* exactly two hex characters for each byte, also when one entry alone    *)
(* carries more than 30 bytes of object code.                             *)
TextRecordByteCount ==
  objectProgram # <<>> =>
    \A k \in 1..Len(objectProgram[1].textRecords) :
      LET record == objectProgram[1].textRecords[k]
      IN  /\ 2 <= record.halfBytes
          /\ record.halfBytes <= 60
          /\ Len(record.objectCode) = record.halfBytes

(* C3: the address ranges [start, start+length) of the T records are          *)
(* pairwise disjoint and the start addresses strictly increase in emission    *)
(* order, for programs that move the location counter as well.                *)
TextRecordsDisjointIncreasing ==
  objectProgram # <<>> =>
    \A j, k \in 1..Len(objectProgram[1].textRecords) :
      LET first == objectProgram[1].textRecords[j]
          second == objectProgram[1].textRecords[k]
      IN  j < k =>
            /\ first.startAddress < second.startAddress
            /\ \/ 2 * first.startAddress + first.halfBytes <= 2 * second.startAddress
               \/ 2 * second.startAddress + second.halfBytes <= 2 * first.startAddress

(* C4: the M records are, in order, exactly the Pass 2 entries with format 4 *)
(* and needsModification, each with address = location + 1, length 5 and     *)
(* sign '+'; no other entry, a flagged WORD included, has an M record.       *)
ModificationRecordsMatch ==
  objectProgram # <<>> =>
    LET entries == pass2Result[1].entries
        relocated == SelectSeq(entries, LAMBDA e : e.format = 4 /\ e.needsModification)
        records == objectProgram[1].modificationRecords
    IN  /\ Len(records) = Len(relocated)
        /\ \A k \in 1..Len(records) :
             /\ ~IsNull(relocated[k].line.location)
             /\ records[k].address = Val(relocated[k].line.location) + 1
             /\ records[k].length = 5
             /\ records[k].sign = "+"

ModificationRecordsAndFlaggedWord ==
  /\ objectProgram # <<>>
  /\ Len(objectProgram[1].modificationRecords) >= 1
  /\ \E k \in 1..Len(pass2Result[1].entries) :
       /\ pass2Result[1].entries[k].line.opcode = "WORD"
       /\ pass2Result[1].entries[k].needsModification

(* C5: every Pass 2 entry with NIXBPE flags has (n,i) = (0,1) when immediate, *)
(* (1,0) when indirect, (1,1) when simple, never (0,0); b and p are not both  *)
(* 1; e = 1 exactly for format 4; b = p = 0 for format 4.                     *)
NixbpeConsistent ==
  pass2Result # <<>> =>
    \A k \in 1..Len(pass2Result[1].entries) :
      LET entry == pass2Result[1].entries[k]
          f == entry.nixbpe[1]
      IN  entry.nixbpe # <<>> =>
            /\ entry.addressingMode = "immediate" => (f.n = 0 /\ f.i = 1)
            /\ entry.addressingMode = "indirect" => (f.n = 1 /\ f.i = 0)
            /\ entry.addressingMode = "simple" => (f.n = 1 /\ f.i = 1)
            /\ ~(f.n = 0 /\ f.i = 0)
            /\ ~(f.b = 1 /\ f.p = 1)
            /\ (f.e = 1) <=> (entry.format = 4)
            /\ entry.format = 4 => (f.b = 0 /\ f.p = 0)

NixbpeOfEveryMode ==
  /\ pass2Result # <<>>
  /\ \E j, k, m \in 1..Len(pass2Result[1].entries) :
       LET entries == pass2Result[1].entries
       IN  /\ entries[j].format = 3 /\ entries[j].addressingMode = "simple"
           /\ entries[j].nixbpe[1].p = 1
           /\ entries[k].format = 3 /\ entries[k].addressingMode = "indirect"
           /\ entries[m].format = 4 /\ entries[m].addressingMode = "immediate"

(* C7: a Format 3 entry in PC-relative mode has a displacement that, sign     *)
(* extended from 12 bits, is targetAddress - (locctr + 3); in BASE-relative   *)
(* mode its displacement is targetAddress - the base in force at that line.   *)
Format3Displacement ==
  pass2Result # <<>> =>
    LET entries == pass2Result[1].entries
        file == pass1Result[1].intermediateFile
        symbolTable == pass1Result[1].symbolTable
        SetsBase(j) ==
          \/ file[j].line.opcode = "NOBASE"
          \/ /\ file[j].line.opcode = "BASE"
             /\ Len(file[j].line.operand) > 0
             /\ ~IsNull(BaseOperandValue(file[j].line.operand, symbolTable))
        BaseInForce(k) ==
          LET before == {j \in 1..(k - 1) : SetsBase(j)}
              last == CHOOSE j \in before : \A o \in before : o <= j
          IN  IF before = {} \/ file[last].line.opcode = "NOBASE" THEN None
              ELSE BaseOperandValue(file[last].line.operand, symbolTable)
        SignExtend12(d) == IF d >= 2048 THEN d - 4096 ELSE d
    IN  \A k \in 1..Len(entries) :
          entries[k].format = 3 =>
            /\ entries[k].displacementMode = "PC-relative" =>
                 /\ Val(entries[k].displacement) \in 0..4095
                 /\ SignExtend12(Val(entries[k].displacement))
                      = Val(entries[k].targetAddress) - (Val(file[k].locctr) + 3)
            /\ entries[k].displacementMode = "BASE-relative" =>
                 /\ ~IsNull(BaseInForce(k))
                 /\ Val(entries[k].displacement)
                      = Val(entries[k].targetAddress) - Val(BaseInForce(k))

BackwardAndBaseRelative ==
  /\ pass2Result # <<>>
  /\ \E j, k \in 1..Len(pass2Result[1].entries) :
       LET entries == pass2Result[1].entries
       IN  /\ entries[j].format = 3 /\ entries[j].displacementMode = "PC-relative"
           /\ Val(entries[j].displacement) >= 2048
           /\ entries[k].format = 3 /\ entries[k].displacementMode = "BASE-relative"

SizeMatchesObjectCode ==
  pass2Result # <<>> =>
    \A k \in 1..Len(pass2Result[1].entries) :
      Len(pass2Result[1].entries[k].objectCode) > 0 =>
        Len(pass2Result[1].entries[k].objectCode)
          = 2 * pass1Result[1].intermediateFile[k].size

(* C10: an intermediate entry B with a location, not a START or ORG line, has *)
(* locctr(B) = locctr(A) + size(A) for the nearest preceding entry A with a   *)
(* location.                                                                  *)
LocctrChained ==
  pass1Result # <<>> =>
    LET file == pass1Result[1].intermediateFile
    IN  \A a, b \in 1..Len(file) :
          (/\ a < b
           /\ ~IsNull(file[a].locctr)
           /\ ~IsNull(file[b].locctr)
           /\ \A m \in (a + 1)..(b - 1) : IsNull(file[m].locctr)
           /\ file[b].line.opcode \notin {"START", "ORG"})
            => Val(file[b].locctr) = Val(file[a].locctr) + file[a].size

ChainedAcrossComment ==
  /\ pass1Result # <<>>
  /\ \E a \in 1..Len(pass1Result[1].intermediateFile) :
       LET file == pass1Result[1].intermediateFile
       IN  /\ a + 2 <= Len(file)
           /\ file[a].size = 2
           /\ IsNull(file[a + 1].locctr)
           /\ file[a + 2].size = 1

-----------------------------------------------------------------------------
(* C11: the symbol table is write-once during Pass 1: a symbol that is in the *)
(* table after the first k lines of the program is in the table with the same *)
(* value after the first k + 1 lines, and in the table Pass 1 returns after   *)
(* the deferred EQUs are resolved.                                            *)
SymbolTableWriteOnce ==
  LET After(k) == Pass1Scan(Pass1Init, SubSeq(lines, 1, k), 1).symbolTable
      Kept(before, after) ==
        \A name \in DOMAIN before : name \in DOMAIN after /\ after[name] = before[name]
  IN  pass1Result # <<>> =>
        /\ \A k \in 0..(Len(lines) - 1) : Kept(After(k), After(k + 1))
        /\ Kept(After(Len(lines)), pass1Result[1].symbolTable)

(* C12: when exactly two processed lines other than EQU carry the same label, *)
(* Pass 1 reports exactly one 'Duplicate symbol' error, on the later line,    *)
(* keeps the value of the first definition, fails, and gives every other line *)
(* the locctr and size it has when the later line carries no label.           *)
DuplicateSymbolReported ==
  LET Defines(k, intermediateFile) ==
        /\ k <= Len(intermediateFile)
        /\ ~lines[k].isEmpty /\ ~lines[k].isComment
        /\ Len(lines[k].label) > 0
        /\ ToUpperCase(lines[k].opcode) # "EQU"
      SameLabel(j, k) == ToUpperCase(lines[j].label) = ToUpperCase(lines[k].label)
      ValueAfter(j, label) == Pass1Scan(Pass1Init, SubSeq(lines, 1, j), 1).symbolTable[label]
      Duplicates(errors) ==
        {e \in 1..Len(errors) :
           errors[e].type = "error" /\ errors[e].message = "Duplicate symbol"}
      Reported(j, k, label, result, without) ==
        /\ Cardinality(Duplicates(result.errors)) = 1
        /\ \A e \in Duplicates(result.errors) : result.errors[e].lineNumber = k
        /\ label \in DOMAIN result.symbolTable
        /\ result.symbolTable[label] = ValueAfter(j, label)
        /\ ~result.success
        /\ Len(without.intermediateFile) = Len(result.intermediateFile)
        /\ \A m \in (1..Len(result.intermediateFile)) \ {k} :
              /\ result.intermediateFile[m].locctr = without.intermediateFile[m].locctr
              /\ result.intermediateFile[m].size = without.intermediateFile[m].size
  IN  pass1Result # <<>> =>
        \A j, k \in 1..Len(lines) :
          ( /\ j < k
            /\ Defines(j, pass1Result[1].intermediateFile)
            /\ Defines(k, pass1Result[1].intermediateFile)
            /\ SameLabel(j, k)
            /\ \A m \in (1..Len(lines)) \ {j, k} : ~SameLabel(m, k) )
          => Reported(j, k, ToUpperCase(lines[k].label), pass1Result[1],
                      executePass1([lines EXCEPT ![k].label = ""]))

(* C13: a Format 3 instruction whose operand is '#' and a decimal literal has *)
(* (n,i) = (0,1), b = p = 0 and the decimal value of the literal in its 12-bit *)
(* displacement field, wherever the instruction lies.                         *)
ImmediateLiteralDecimal ==
  LET Literal(entry) ==
        /\ entry.format = 3
        /\ entry.line.addressingPrefix = "#"
        /\ isValidDecimalNumber(entry.line.operand)
      Encoded(entry, flags, value) ==
        /\ flags.n = 0 /\ flags.i = 1 /\ flags.b = 0 /\ flags.p = 0
        /\ entry.displacement = Some(value % 4096)
        /\ SubSeq(entry.objectCode, 4, 6) = PadStart(ToHex(value % 4096), 3, "0")
  IN  pass2Result # <<>> =>
        \A k \in 1..Len(pass2Result[1].entries) :
          Literal(pass2Result[1].entries[k])
            => Encoded(pass2Result[1].entries[k], pass2Result[1].entries[k].nixbpe[1],
                       ParseInt10(pass2Result[1].entries[k].line.operand))

(* C14: when the only definition of BUFEND, 'BUFEND EQU BUFFER+4096', lies   *)
(* before the only definition of BUFFER, 'BUFFER RESB 4096', Pass 1 reports   *)
(* nothing on the EQU line and maps BUFEND to the address of BUFFER plus 4096. *)
DeferredEquValue ==
  LET Labelled(k, label) == ToUpperCase(lines[k].label) = label
      IsEqu(j) == /\ Labelled(j, "BUFEND") /\ lines[j].opcode = "EQU"
                  /\ lines[j].operand = "BUFFER+4096"
      IsBuffer(k) == /\ Labelled(k, "BUFFER") /\ lines[k].opcode = "RESB"
                     /\ lines[k].operand = "4096"
      Resolved(j, result) ==
        /\ \A e \in 1..Len(result.errors) : result.errors[e].lineNumber # j
        /\ "BUFFER" \in DOMAIN result.symbolTable
        /\ "BUFEND" \in DOMAIN result.symbolTable
        /\ result.symbolTable["BUFEND"] = result.symbolTable["BUFFER"] + 4096
  IN  pass1Result # <<>> =>
        \A j, k \in 1..Len(lines) :
          ( /\ j < k /\ IsEqu(j) /\ IsBuffer(k)
            /\ \A m \in (1..Len(lines)) \ {j, k} :
                  ~Labelled(m, "BUFEND") /\ ~Labelled(m, "BUFFER") )
          => Resolved(j, pass1Result[1])

(* C15: an extended instruction '+OP SYM' at location L with simple addressing *)
(* and SYM defined as V has eight hex digits of object code: the first byte is *)
(* (opcode & 0xFC) | 3, the flag nibble is x from indexing, b = p = 0, e = 1,   *)
(* and the last five digits are V; being the only Format 4 instruction at L,   *)
(* it has exactly one M record in the object program, M^(L+1)^05^+(program     *)
(* name). In Scenario D the object code is 4B102039 and the only M record is   *)
(* M^001007^05^+COPY.                                                          *)
Format4Encoding ==
  LET Extended(entry, symbolTable) ==
        /\ entry.line.isExtended
        /\ entry.line.addressingPrefix = ""
        /\ ToUpperCase(entry.line.operand) \in DOMAIN symbolTable
        /\ isValidOpcode(entry.line.opcode)
      x(entry) == IF entry.line.indexed THEN 1 ELSE 0
      Encoded(entry, opcode, V) ==
        /\ entry.format = 4
        /\ Len(entry.objectCode) = 8
        /\ SubSeq(entry.objectCode, 1, 2) = Hex2((opcode \div 4) * 4 + 3)
        /\ SubSeq(entry.objectCode, 3, 3) = ToHex(x(entry) * 8 + 1)
        /\ SubSeq(entry.objectCode, 4, 8) = PadStart(ToHex(V), 5, "0")
      OnlyAt(entries, k) ==
        \A m \in (1..Len(entries)) \ {k} :
          entries[m].format = 4 => LocationOf(entries[m]) # LocationOf(entries[k])
      Relocated(entry, program) ==
        Cardinality({r \in 1..Len(program.modificationRecords) :
                       program.modificationRecords[r].address = LocationOf(entry) + 1}) = 1
        /\ \A r \in 1..Len(program.modificationRecords) :
              program.modificationRecords[r].address = LocationOf(entry) + 1
                => program.modificationRecords[r].raw =
                     "M^" \o Hex6(LocationOf(entry) + 1) \o "^05^+" \o program.programName
  IN  /\ pass2Result # <<>> =>
            \A k \in 1..Len(pass2Result[1].entries) :
              Extended(pass2Result[1].entries[k], pass1Result[1].symbolTable)
                => /\ Encoded(pass2Result[1].entries[k],
                              OPTAB[pass2Result[1].entries[k].line.opcode].opcode,
                              pass1Result[1].symbolTable[
                                ToUpperCase(pass2Result[1].entries[k].line.operand)])
                   /\ (objectProgram # <<>> /\ OnlyAt(pass2Result[1].entries, k))
                         => Relocated(pass2Result[1].entries[k], objectProgram[1])
      /\ (lines = ScenarioD /\ objectProgram # <<>>) =>
            /\ pass2Result[1].entries[3].objectCode = "4B102039"
            /\ [r \in 1..Len(objectProgram[1].modificationRecords) |->
                  objectProgram[1].modificationRecords[r].raw] = <<"M^001007^05^+COPY">>

Format4Relocated ==
  /\ lines = ScenarioD
  /\ objectProgram # <<>>
  /\ pass2Result[1].entries[3].format = 4
  /\ pass2Result[1].entries[3].needsModification
  /\ LocationOf(pass2Result[1].entries[3]) = 4102

(* C16: in every state of the store a stage has an output only if the stage *)
(* before it reported no error: pass1Result only with no error of the parser *)
(* among the errors, pass2Result only with a successful pass1Result,         *)
(* objectProgram only with a successful pass2Result, memory only with an     *)
(* objectProgram.                                                            *)
DriverGating ==
  LET ParserError(errors) ==
        \E k \in 1..Len(errors) : errors[k].phase = "parser" /\ errors[k].type = "error"
      Succeeded(result) == result # <<>> /\ result[1].success
  IN  store # <<>> =>
        /\ store.pass1Result # <<>> => ~ParserError(store.errors)
        /\ store.pass2Result # <<>> => Succeeded(store.pass1Result)
        /\ store.objectProgram # <<>> => Succeeded(store.pass2Result)
        /\ store.memory # <<>> => store.objectProgram # <<>>

(* C17: whatever setSourceCode, reset and assemble calls fall between the    *)
(* stages of a running assemble(), a store in phase 'complete' holds the      *)
(* tokenizedLines, pass1Result, pass2Result, objectProgram and memory of an   *)
(* assemble() that runs alone on the current sourceCode, and the parser finds *)
(* no error in the current sourceCode.                                        *)
InterleavingIndependent ==
  LET Step(r) == IF r.next = "done" THEN r ELSE resume(r.store, r.next)
      Alone(started) ==
        Step(Step(Step(Step(Step([store |-> runLexer(started), next |-> "parser"]))))).store
      Same(s, alone) ==
        /\ s.tokenizedLines = alone.tokenizedLines
        /\ s.pass1Result = alone.pass1Result
        /\ s.pass2Result = alone.pass2Result
        /\ s.objectProgram = alone.objectProgram
        /\ s.memory = alone.memory
  IN  (store # <<>> /\ store.currentPhase = "complete") =>
        /\ Same(store, Alone([initialState(store.sourceCode) EXCEPT !.currentPhase = "lexing"]))
        /\ parseAll(Numbered(store.sourceCode)).success

(* C18: the deferred-EQU loop, run for at most |deferred| + 1 passes, ends at *)
(* a fixed point: more passes change nothing, an EQU line is reported as       *)
(* 'Cannot evaluate EQU expression' exactly when its operand has no value      *)
(* against the final symbol table, and so the EQUs of a circular or            *)
(* self-referential group are all reported. The later stages leave the result *)
(* of Pass 1 as it is: it is examined in the state that Pass 1 reaches.        *)
DeferredEquFixedPoint ==
  LET IsEqu(k) ==
        /\ ~lines[k].isEmpty /\ ~lines[k].isComment
        /\ ToUpperCase(lines[k].opcode) = "EQU"
        /\ Len(lines[k].label) > 0 /\ Len(lines[k].operand) > 0
      Reported(k, errors) ==
        \E e \in 1..Len(errors) :
          /\ errors[e].lineNumber = k /\ errors[e].type = "error"
          /\ errors[e].message = "Cannot evaluate EQU expression"
      Unresolvable(entry, symbolTable) ==
        IsNull(evaluateExpression(entry.line.operand, symbolTable, Val(entry.locctr)))
      FixedPoint(scanned, resolved) ==
        ResolveDeferred(scanned, 1, 0, 2 * Len(scanned.deferredEQUs) + 2) = resolved
      Settled(result, scanned) ==
        /\ FixedPoint(scanned, ResolveDeferred(scanned, 1, 0, Len(scanned.deferredEQUs) + 1))
        /\ \A k \in 1..Len(result.intermediateFile) :
             IsEqu(k) => ( Reported(k, result.errors)
                             <=> Unresolvable(result.intermediateFile[k], result.symbolTable) )
  IN  (pass1Result # <<>> /\ pass2Result = <<>>)
        => Settled(pass1Result[1], Pass1Scan(Pass1Init, lines, 1))

ChainResolvedInTwoPasses ==
  /\ pass1Result # <<>>
  /\ Len(lines) = 3
  /\ lines[1].label = "Y" /\ lines[1].operand = "BUFFER"
  /\ lines[2].label = "X" /\ lines[2].operand = "Y"
  /\ lines[3].label = "BUFFER" /\ lines[3].opcode = "RESB"
  /\ DOMAIN pass1Result[1].symbolTable = {"X", "Y", "BUFFER"}
  /\ pass1Result[1].success

(* C19: in Pass 2 the base value is unset before the first line; at a line it *)
(* is the value of the most recent BASE before it whose operand is a defined    *)
(* symbol or else a number, and unset when there is none or a NOBASE follows    *)
(* that BASE. Every Format 3 line is encoded with that base, the result returns *)
(* the base after the last line, and a BASE whose operand is neither a defined  *)
(* symbol nor a number is reported and changes nothing.                         *)
BaseRegisterScoping ==
  LET Resolves(operand, symbolTable) ==
        ToUpperCase(operand) \in DOMAIN symbolTable \/ ~IsNull(parseNumericOperand(operand))
      ValueOf(operand, symbolTable) ==
        IF ToUpperCase(operand) \in DOMAIN symbolTable
        THEN Some(symbolTable[ToUpperCase(operand)])
        ELSE parseNumericOperand(operand)
      IsBase(line) == ~line.isEmpty /\ ~line.isComment /\ ToUpperCase(line.opcode) = "BASE"
      IsNoBase(line) == ~line.isEmpty /\ ~line.isComment /\ ToUpperCase(line.opcode) = "NOBASE"
      Sets(line, symbolTable) ==
        IsNoBase(line) \/ (IsBase(line) /\ Resolves(line.operand, symbolTable))
      Last(before) == CHOOSE j \in before : \A o \in before : o <= j
      BaseAt(file, symbolTable, before) ==
        IF before = {} \/ IsNoBase(file[Last(before)].line) THEN None
        ELSE ValueOf(file[Last(before)].line.operand, symbolTable)
      BaseInForce(file, symbolTable, k) ==
        BaseAt(file, symbolTable, {j \in 1..(k - 1) : Sets(file[j].line, symbolTable)})
      IsFormat3(line) ==
        /\ ~line.isEmpty /\ ~line.isComment /\ ~line.isExtended
        /\ ToUpperCase(line.opcode) \in DOMAIN OPTAB
        /\ OPTAB[ToUpperCase(line.opcode)].format = 3
      Reported(k, errors, message) ==
        \E e \in 1..Len(errors) : errors[e].lineNumber = k /\ errors[e].message = message
      Scoped(file, symbolTable, result) ==
        /\ \A k \in 1..Len(file) :
             /\ IsFormat3(file[k].line) =>
                  result.entries[k] =
                    generateInstructionCode(file[k].line, file[k], symbolTable,
                                            BaseInForce(file, symbolTable, k)).entry
             /\ (IsBase(file[k].line) /\ Len(file[k].line.operand) > 0)
                  => ( Reported(file[k].line.lineNumber, result.errors,
                                "Undefined symbol for BASE")
                         <=> ~Resolves(file[k].line.operand, symbolTable) )
        /\ result.baseRegister = BaseInForce(file, symbolTable, Len(file) + 1)
  IN  pass2Result # <<>> =>
        Scoped(pass1Result[1].intermediateFile, pass1Result[1].symbolTable, pass2Result[1])

BaseKeptAcrossUnresolvedBase ==
  /\ pass2Result # <<>>
  /\ Len(lines) = 3
  /\ lines[1].opcode = "BASE" /\ lines[1].operand = "1000"
  /\ lines[2].opcode = "BASE" /\ lines[2].operand = "UNDEF"
  /\ lines[3].opcode = "LDA" /\ lines[3].operand = "1800"
  /\ pass2Result[1].entries[3].displacementMode = "BASE-relative"
  /\ pass2Result[1].entries[3].objectCode = "034800"
  /\ pass2Result[1].baseRegister = Some(4096)
  /\ Len(pass2Result[1].errors) = 1

(* C20: a Format 3 instruction with immediate addressing whose operand is    *)
(* neither in the symbol table nor a numeric literal gets a Pass 2 error on its *)
(* line and no object code.                                                     *)
UnresolvedImmediateRejected ==
  LET Unresolved(line, symbolTable) ==
        /\ ~line.isEmpty /\ ~line.isComment /\ ~line.isExtended
        /\ ToUpperCase(line.opcode) \in DOMAIN OPTAB
        /\ OPTAB[ToUpperCase(line.opcode)].format = 3
        /\ line.addressingPrefix = "#"
        /\ Len(line.operand) > 0
        /\ ToUpperCase(line.operand) \notin DOMAIN symbolTable
        /\ IsNull(parseNumericOperand(line.operand))
      Rejected(file, symbolTable, result) ==
        \A k \in 1..Len(file) :
          Unresolved(file[k].line, symbolTable) =>
            /\ result.entries[k].objectCode = ""
            /\ \E e \in 1..Len(result.errors) :
                 /\ result.errors[e].lineNumber = file[k].line.lineNumber
                 /\ result.errors[e].type = "error"
  IN  pass2Result # <<>> =>
        Rejected(pass1Result[1].intermediateFile, pass1Result[1].symbolTable, pass2Result[1])

(* C21: Pass 1 reports an error on the line of every START directive that is *)
(* not the first non-empty, non-comment line of the program, and of every      *)
(* START after the first one.                                                  *)
StartPlacementReported ==
  LET IsCode(line) == ~line.isEmpty /\ ~line.isComment
      IsStart(line) == IsCode(line) /\ ToUpperCase(line.opcode) = "START"
      Misplaced(k) == IsStart(lines[k]) /\ \E j \in 1..(k - 1) : IsCode(lines[j])
      Reported(k, errors) ==
        \E e \in 1..Len(errors) : errors[e].lineNumber = lines[k].lineNumber
                                  /\ errors[e].type = "error"
  IN  pass1Result # <<>> =>
        \A k \in 1..Len(lines) : Misplaced(k) => Reported(k, pass1Result[1].errors)

(* C23: for every Format 2 line the parser accepts, Pass 2 emits exactly four *)
(* upper-case hex digits: the two digits of the opcode byte, then one digit for *)
(* r1 and one for r2, each in 0..15; r2 is the count minus one for SHIFTL and   *)
(* SHIFTR, and an absent second operand encodes as 0.                           *)
Format2FourHexDigits ==
  LET Accepted(line) ==
        /\ ~line.isEmpty /\ ~line.isComment
        /\ ToUpperCase(line.opcode) \in DOMAIN OPTAB
        /\ OPTAB[ToUpperCase(line.opcode)].format = 2
        /\ Len(parseLine(line).errors) = 0
      Nibble(part, shift) ==
        IF Len(part) = 0 THEN 0
        ELSE IF ~IsNull(getRegisterCode(part)) THEN Val(getRegisterCode(part))
        ELSE ParseInt10(part) - shift
      Encoded(opcode, parts, code) ==
        /\ Len(code) = 4
        /\ AllIn(code, HexDigits)
        /\ SubSeq(code, 1, 2) = Hex2(OPTAB[opcode].opcode)
        /\ \E r1, r2 \in 0..15 :
             /\ SubSeq(code, 3, 3) = DigitChar(r1)
             /\ SubSeq(code, 4, 4) = DigitChar(r2)
             /\ r1 = Nibble(IF Len(parts) >= 1 THEN parts[1] ELSE "", 0)
             /\ r2 = Nibble(IF Len(parts) >= 2 THEN parts[2] ELSE "",
                            IF opcode \in {"SHIFTL", "SHIFTR"} THEN 1 ELSE 0)
  IN  pass2Result # <<>> =>
        \A k \in 1..Len(pass2Result[1].entries) :
          Accepted(pass2Result[1].entries[k].line) =>
            Encoded(ToUpperCase(pass2Result[1].entries[k].line.opcode),
                    SplitComma(ToUpperCase(pass2Result[1].entries[k].line.operand), "", <<>>),
                    pass2Result[1].entries[k].objectCode)

(* C25: after loadObjectProgram with the Pass 2 result, every byte written   *)
(* from a T record carries the source line number, the instruction text and the *)
(* label of the Pass 2 entry whose object code produced it. Stated for the      *)
(* programs in which every object code is a whole number of bytes and no two    *)
(* entries occupy a common address, where the producing entry of a byte is the  *)
(* entry whose range holds its address.                                         *)
LoadedBytesAttributed ==
  LET Coded(entries) == {k \in 1..Len(entries) : Len(entries[k].objectCode) > 0}
      Range(entry) ==
        LocationOf(entry)..(LocationOf(entry) + (Len(entry.objectCode) \div 2) - 1)
      Plain(entries) ==
        /\ \A k \in Coded(entries) : Len(entries[k].objectCode) % 2 = 0
                                     /\ ~IsNull(entries[k].line.location)
        /\ \A j, k \in Coded(entries) :
             j # k => Range(entries[j]) \cap Range(entries[k]) = {}
      Tagged(entry, meta) ==
        /\ meta.sourceLineNumber = Some(entry.line.lineNumber)
        /\ meta.instruction = Trim(entry.line.opcode \o " " \o entry.line.operand)
        /\ meta.label = entry.line.label
      Attributed(entries, mem) ==
        \A k \in Coded(entries) :
          \A a \in Range(entries[k]) :
            a < mem.size => (a \in DOMAIN mem.metadata /\ Tagged(entries[k], mem.metadata[a]))
  IN  (memory # <<>> /\ Plain(pass2Result[1].entries))
        => Attributed(pass2Result[1].entries, memory[1])

(* C22: the size Pass 1 assigns to a line is 1, 2, 3 for a mnemonic of       *)
(* Format 1, 2, 3 written without '+', 4 for any mnemonic written with '+',    *)
(* the character count for BYTE C'..', half the digit count for BYTE X'..',    *)
(* 3 for WORD, n for RESB n, 3n for RESW n and 0 for the other directives.     *)
Pass1SizeTable ==
  LET Body(operand) == SubSeq(operand, 3, Len(operand) - 1)
      Expected(line, opcode) ==
        IF opcode \in DOMAIN OPTAB
        THEN IF line.isExtended THEN 4 ELSE OPTAB[opcode].format
        ELSE CASE opcode = "BYTE" /\ StartsWith(ToUpperCase(line.operand), "C") ->
                    Len(Body(line.operand))
               [] opcode = "BYTE" /\ StartsWith(ToUpperCase(line.operand), "X") ->
                    Len(Body(line.operand)) \div 2
               [] opcode = "WORD" -> 3
               [] opcode = "RESB" -> ParseInt10(line.operand)
               [] opcode = "RESW" -> 3 * ParseInt10(line.operand)
               [] OTHER -> 0
      Sized(entry) ==
        (~entry.line.isEmpty /\ ~entry.line.isComment)
          => entry.size = Expected(entry.line, ToUpperCase(entry.line.opcode))
  IN  pass1Result # <<>> =>
        \A k \in 1..Len(pass1Result[1].intermediateFile) :
          Sized(pass1Result[1].intermediateFile[k])

(* C24: needsModification of a Format 4 entry is true when its operand is a  *)
(* symbol used with simple (n=1, i=1) or immediate addressing, and false for   *)
(* indirect addressing, for an instruction without operand and for an operand  *)
(* that is a pure numeric literal, immediate or simple.                        *)
Format4RelocationFlag ==
  LET IsFormat4(entry) ==
        /\ entry.format = 4
        /\ ToUpperCase(entry.line.opcode) \in DOMAIN OPTAB
        /\ OPTAB[ToUpperCase(entry.line.opcode)].format = 3
      IsSymbol(operand, symbolTable) == ToUpperCase(operand) \in DOMAIN symbolTable
      IsLiteral(operand, symbolTable) ==
        ~IsSymbol(operand, symbolTable) /\ ~IsNull(parseNumericOperand(operand))
      Flagged(entry, line, symbolTable) ==
        /\ (IsSymbol(line.operand, symbolTable) /\ line.addressingPrefix \in {"", "#"})
             => entry.needsModification
        /\ line.addressingPrefix = "@" => ~entry.needsModification
        /\ Len(line.operand) = 0 => ~entry.needsModification
        /\ IsLiteral(line.operand, symbolTable) => ~entry.needsModification
  IN  pass2Result # <<>> =>
        \A k \in 1..Len(pass2Result[1].entries) :
          IsFormat4(pass2Result[1].entries[k]) =>
            Flagged(pass2Result[1].entries[k], pass2Result[1].entries[k].line,
                    pass1Result[1].symbolTable)

EvaluatorsAgree ==
  LET Agree(operand, symbolTable) ==
        (Len(operand) > 0 /\ ~Includes(operand, "*"))
          => evaluateExpression(operand, symbolTable, 0)
               = evaluateOperandExpression(operand, symbolTable)
  IN  pass1Result # <<>> =>
        \A k \in 1..Len(lines) : Agree(lines[k].operand, pass1Result[1].symbolTable)

(* C28: for every program Pass 1 accepts without error, programLength is    *)
(* non-negative and every byte of every T record lies at an address in        *)
(* [startAddress, startAddress + programLength), so that the loader's range   *)
(* programStart..programEnd covers every loaded byte.                         *)
ProgramExtentCoversText ==
  LET Bytes(record) ==
        record.startAddress..(record.startAddress + ((Len(record.objectCode) + 1) \div 2) - 1)
      Inside(p1, records) ==
        \A k \in 1..Len(records) :
          \A a \in Bytes(records[k]) :
            p1.startAddress <= a /\ a < p1.startAddress + p1.programLength
      Covered(mem) ==
        \A a \in DOMAIN mem.bytes : mem.programStart <= a /\ a < mem.programEnd
  IN  (pass1Result # <<>> /\ pass1Result[1].success) =>
        /\ pass1Result[1].programLength >= 0
        /\ objectProgram # <<>> => Inside(pass1Result[1], objectProgram[1].textRecords)
        /\ memory # <<>> => Covered(memory[1])

(* C29: after any sequence and interleaving of store actions, every          *)
(* tokenizedLines, pass1Result, pass2Result, objectProgram and memory that the *)
(* store holds is the one computed from the store's current sourceCode.        *)
NoStaleResults ==
  LET Loaded(s, p2, program) ==
        s.memory # <<>> => s.memory = <<loadObjectProgram(program, <<p2>>, SIC_MEMORY_SIZE)>>
      Generated(s, p1, p2) ==
        /\ s.pass2Result # <<>> => s.pass2Result = <<p2>>
        /\ s.objectProgram # <<>> => s.objectProgram = <<generateObjectProgram(p1, p2)>>
        /\ s.memory # <<>> => s.objectProgram # <<>>
        /\ s.objectProgram # <<>> => Loaded(s, p2, s.objectProgram[1])
      Assembled(s, p1) ==
        /\ s.pass1Result # <<>> => s.pass1Result = <<p1>>
        /\ (s.pass2Result # <<>> \/ s.objectProgram # <<>>) => Generated(s, p1, executePass2(p1))
      Tokenized(s, tokenizedLines) ==
        /\ s.tokenizedLines # <<>> => s.tokenizedLines = tokenizedLines
        /\ (s.pass1Result # <<>> \/ s.pass2Result # <<>> \/ s.objectProgram # <<>>
              \/ s.memory # <<>>)
             => (Len(tokenizedLines) > 0 /\ Assembled(s, executePass1(tokenizedLines)))
  IN  store # <<>> => Tokenized(store, Numbered(store.sourceCode))

(* a task that ran Pass 2 finds its result cleared and Pass 1 run again *)
StageRerunAfterClear ==
  /\ store # <<>>
  /\ store.sourceCode = <<Imm(Line("", "LDA", "1"))>>
  /\ \E t \in 1..MaxTasks : tasks[t] = "generate"
  /\ store.pass1Result # <<>>
  /\ store.pass2Result = <<>>

(* C30: the payloads of the T records, joined in order, are the object codes *)
(* of the Pass 2 entries joined in source order; each entry with object code   *)
(* lies in one record, its first byte at record start + payload bytes before   *)
(* it, which is the entry's Pass 1 location; and two entries of one record     *)
(* have no entry without object code between them.                             *)
TextRecordPlacement ==
  LET Placed(entries, records) ==
        LET EntryEnd[k \in 0..Len(entries)] ==
              IF k = 0 THEN 0 ELSE EntryEnd[k - 1] + Len(entries[k].objectCode)
            RecordEnd[r \in 0..Len(records)] ==
              IF r = 0 THEN 0 ELSE RecordEnd[r - 1] + Len(records[r].objectCode)
            Coded == {k \in 1..Len(entries) : Len(entries[k].objectCode) > 0}
            Holds(k, r) == /\ RecordEnd[r - 1] <= EntryEnd[k - 1]
                           /\ EntryEnd[k] <= RecordEnd[r]
        IN  /\ EntryEnd[Len(entries)] = RecordEnd[Len(records)]
            /\ \A k \in Coded :
                 \E r \in 1..Len(records) :
                   /\ Holds(k, r)
                   /\ SubSeq(records[r].objectCode,
                             EntryEnd[k - 1] - RecordEnd[r - 1] + 1,
                             EntryEnd[k] - RecordEnd[r - 1]) = entries[k].objectCode
                   /\ (EntryEnd[k - 1] - RecordEnd[r - 1]) % 2 = 0
                   /\ records[r].startAddress + (EntryEnd[k - 1] - RecordEnd[r - 1]) \div 2
                        = LocationOf(entries[k])
                   /\ ~IsNull(entries[k].line.location)
            /\ \A j, k \in Coded :
                 (j < k /\ \E r \in 1..Len(records) : Holds(j, r) /\ Holds(k, r))
                   => \A m \in j..k : m \in Coded
  IN  objectProgram # <<>> => Placed(pass2Result[1].entries, objectProgram[1].textRecords)

-----------------------------------------------------------------------------
(* displacement selection on its own: a J to a symbol at targetAddress, *)
(* assembled at pc - 3 with the base register given                     *)

DispPCs == {3003, 6000}

DispOffsets == {-2049, -2048, -1, 0, 2047, 2048, 5000}

DispBaseOffsets == {-1, 0, 4095, 4096}

DispInputs ==
  UNION {{[targetAddress |-> pc + d, pc |-> pc, baseRegister |-> b] :
            b \in {None} \cup {Some(pc + d - o) : o \in DispBaseOffsets}} :
         pc \in DispPCs, d \in DispOffsets}

InitDisp ==
  /\ dispIn \in DispInputs
  /\ dispOut = <<>>
  /\ lines = <<>>
  /\ pass1Result = <<>>
  /\ pass2Result = <<>>
  /\ objectProgram = <<>>
  /\ memory = <<>>
  /\ store = <<>>
  /\ tasks = <<>>

JumpLine == Line("", "J", "TGT")

SelectDisplacement ==
  /\ dispOut = <<>>
  /\ dispOut' =
       <<[result |-> calculateDisplacement(dispIn.targetAddress, dispIn.pc, dispIn.baseRegister),
          generated |-> generateInstructionCode(
                          JumpLine, Intermediate(JumpLine, Some(dispIn.pc - 3), 3),
                          "TGT" :> dispIn.targetAddress, dispIn.baseRegister)]>>
  /\ UNCHANGED <<lines, pass1Result, pass2Result, objectProgram, memory, dispIn, store, tasks>>

NextDisp == SelectDisplacement

SpecDisp == InitDisp /\ [][NextDisp]_vars

(* C6: the result is PC-relative (b=0, p=1) exactly when -2048 <= T-PC <= 2047, *)
(* T = PC+2047 encoding 7FF; otherwise BASE-relative (b=1, p=0, disp = T-B)     *)
(* exactly when B is set and 0 <= T-B <= 4095; otherwise an out-of-range error  *)
(* is returned and the line gets no object code.                                *)
DisplacementSelection ==
  dispOut # <<>> =>
    LET T == dispIn.targetAddress
        PC == dispIn.pc
        B == dispIn.baseRegister
        r == dispOut[1].result
        g == dispOut[1].generated
        inPC == -2048 <= T - PC /\ T - PC <= 2047
        inBase == ~IsNull(B) /\ 0 <= T - Val(B) /\ T - Val(B) <= 4095
    IN  /\ (r.mode = "PC-relative") <=> inPC
        /\ r.mode = "PC-relative" => (r.b = 0 /\ r.p = 1 /\ r.error = "")
        /\ T = PC + 2047 => (r.displacement = 2047 /\ g.entry.objectCode = "3F27FF")
        /\ ~inPC => ((r.mode = "BASE-relative") <=> inBase)
        /\ r.mode = "BASE-relative" =>
             (r.b = 1 /\ r.p = 0 /\ r.displacement = T - Val(B) /\ r.error = "")
        /\ (~inPC /\ ~inBase) =>
             (r.error # "" /\ g.error # "" /\ g.entry.objectCode = "")
        /\ (inPC \/ inBase) =>
             (g.error = "" /\ g.entry.displacementMode = r.mode
                /\ g.entry.displacement = Some(r.displacement)
                /\ g.entry.nixbpe[1].b = r.b /\ g.entry.nixbpe[1].p = r.p)

JumpAtUpperLimit ==
  /\ dispOut # <<>>
  /\ dispIn.targetAddress = dispIn.pc + 2047
  /\ dispOut[1].generated.entry.objectCode = "3F27FF"


====
